---------------------------- MODULE Spec2Model ----------------------------
(***************************************************************************)
(* Underwriting pipeline of the DSCR loan platform: rules engine           *)
(* (services/rules.py), pricing engine (services/pricing.py), decision     *)
(* service (services/decision.py) and DSCR calculator (services/dscr.py).  *)
(*                                                                         *)
(* Number representation.  The Python code works on floats; the model      *)
(* works on integers:                                                      *)
(*   - a DSCR ratio handed to the rules and pricing engines is held in     *)
(*     hundredths (1.25 is 125), float("inf") is the value inf;            *)
(*   - LTV is held in whole percent, rates of the pricing engine in        *)
(*     thousandths of a percent (6.875 is 6875);                           *)
(*   - Money amounts are integer cents, as in the code.                    *)
(* A fact of LoanData that holds None is named in the record's field       *)
(* "absent"; a fact whose value compares with numbers but rejects the      *)
(* float format spec of the message formatter is named in "unformattable". *)
(***************************************************************************)
EXTENDS Integers, Sequences, FiniteSets, TLC

VARIABLES
    loan_data,        \* LoanData handed to rules_engine / decision_service
    pricing_input,    \* PricingInput, or NoPricingInput (None)
    rules_result,     \* RulesEvaluationResult of the last rules_engine.evaluate
    pricing_result,   \* PricingResult of the last calculate_pricing
    decision_result,  \* DecisionResult of the last decision_service.evaluate
    dscr_input,       \* DSCRCalculationInput handed to dscr_calculator
    rent_target,      \* target_dscr argument of calculate_required_rent
    required_rent,    \* Money returned by the last calculate_required_rent
    dscr_result,      \* DSCRCalculationResult of the last dscr_calculator.calculate
    scenarios,        \* list of DSCRScenario returned by the last calculate_scenarios
    max_loan,         \* locals and return value of the last calculate_max_loan_amount
    pc,               \* which call has returned last ("start": none yet)
    engine_rules,     \* rules_engine.rules, the rule table of the shared RulesEngine
    pricing_tables,   \* the adjustment tables of the shared PricingEngine
    uuids_issued,     \* how many values uuid4() has handed out
    now,              \* the clock datetime.utcnow() reads
    calls,            \* the calls in flight on the shared engines, by caller
    transitions,      \* workflow_engine._transitions: MilestoneTransitions by application
    tasks             \* workflow_engine._tasks: Tasks by application

pipelineVars == <<loan_data, pricing_input, rules_result, pricing_result, decision_result>>
dscrVars == <<dscr_input, rent_target, required_rent, dscr_result, scenarios, max_loan>>
callVars == <<engine_rules, pricing_tables, uuids_issued, now, calls>>
workflowVars == <<transitions, tasks>>
vars == <<pipelineVars, dscrVars, pc, callVars, workflowVars>>

\* float("inf") on the hundredths scale: larger than every finite ratio of the model
inf == 1000000000

-----------------------------------------------------------------------------
(* Rules engine: services/rules.py                                         *)

\* RulesEngine._init_rules: the rule table, in table order (id, category, severity)
Rules ==
    << [id |-> "DSCR-001",    category |-> "INCOME",      severity |-> "HARD_STOP"],
       [id |-> "DSCR-002",    category |-> "INCOME",      severity |-> "EXCEPTION_REQUIRED"],
       [id |-> "LTV-001",     category |-> "COLLATERAL",  severity |-> "HARD_STOP"],
       [id |-> "LTV-002",     category |-> "COLLATERAL",  severity |-> "WARNING"],
       [id |-> "CREDIT-001",  category |-> "CREDIT",      severity |-> "HARD_STOP"],
       [id |-> "CREDIT-002",  category |-> "CREDIT",      severity |-> "WARNING"],
       [id |-> "CREDIT-003",  category |-> "CREDIT",      severity |-> "HARD_STOP"],
       [id |-> "CREDIT-004",  category |-> "CREDIT",      severity |-> "HARD_STOP"],
       [id |-> "PROP-001",    category |-> "PROPERTY",    severity |-> "HARD_STOP"],
       [id |-> "PROP-002",    category |-> "PROPERTY",    severity |-> "EXCEPTION_REQUIRED"],
       [id |-> "LOAN-001",    category |-> "ELIGIBILITY", severity |-> "HARD_STOP"],
       [id |-> "LOAN-002",    category |-> "ELIGIBILITY", severity |-> "HARD_STOP"],
       [id |-> "RESERVE-001", category |-> "ELIGIBILITY", severity |-> "EXCEPTION_REQUIRED"] >>

\* thresholds of the rule table
RULE_MIN_DSCR == 75
RULE_DSCR_EXCEPTION == 100
RULE_MAX_LTV == 80
RULE_PREFERRED_LTV == 75
RULE_MIN_CREDIT == 660
RULE_PREFERRED_CREDIT == 700
RULE_MIN_LOAN == 10000000
RULE_MAX_LOAN == 300000000
RULE_MIN_RESERVES == 6

\* PROP-001: the allowed property types
EligiblePropertyTypes ==
    {"SFR", "CONDO", "TOWNHOUSE", "DUPLEX", "TRIPLEX", "FOURPLEX", "MULTIFAMILY_5PLUS"}

\* the LoanData fact a rule's check and message read
RuleFact(id) ==
    CASE id \in {"DSCR-001", "DSCR-002"}     -> "dscr"
      [] id \in {"LTV-001", "LTV-002"}       -> "ltv"
      [] id \in {"CREDIT-001", "CREDIT-002"} -> "credit_score"
      [] id = "CREDIT-003"                   -> "prior_bankruptcies"
      [] id = "CREDIT-004"                   -> "prior_foreclosures"
      [] id = "PROP-001"                     -> "property_type"
      [] id = "PROP-002"                     -> "is_rural"
      [] id \in {"LOAN-001", "LOAN-002"}     -> "loan_amount"
      [] id = "RESERVE-001"                  -> "months_reserves"

\* rules whose check orders the fact against a number (>=, <=): None raises TypeError there
OrderingRules ==
    {"DSCR-001", "DSCR-002", "LTV-001", "LTV-002", "CREDIT-001", "CREDIT-002",
     "LOAN-001", "LOAN-002", "RESERVE-001"}

\* rules whose message applies a float format spec (:.2f, :.1f, :,.0f) to the fact
FloatFormatRules ==
    {"DSCR-001", "DSCR-002", "LTV-001", "LTV-002", "LOAN-001", "LOAN-002"}

\* the "check" lambda of a rule raises
CheckRaises(id, d) == id \in OrderingRules /\ RuleFact(id) \in d.absent

\* LTV-001 with < for <=: an LTV of exactly 80 fails
CheckMaximumLtvStrict(d) == d.ltv < RULE_MAX_LTV

\* the "check" lambda of LTV-001
CheckMaximumLtv(d) == d.ltv <= RULE_MAX_LTV

\* the "check" lambda of a rule, where it does not raise
\* (None == 0 is False, None in [...] is False, not None is True)
RuleCheck(id, d) ==
    CASE id = "DSCR-001"    -> d.dscr >= RULE_MIN_DSCR
      [] id = "DSCR-002"    -> d.dscr >= RULE_DSCR_EXCEPTION
      [] id = "LTV-001"     -> CheckMaximumLtv(d)
      [] id = "LTV-002"     -> d.ltv <= RULE_PREFERRED_LTV
      [] id = "CREDIT-001"  -> d.credit_score >= RULE_MIN_CREDIT
      [] id = "CREDIT-002"  -> d.credit_score >= RULE_PREFERRED_CREDIT
      [] id = "CREDIT-003"  -> "prior_bankruptcies" \notin d.absent /\ d.prior_bankruptcies = 0
      [] id = "CREDIT-004"  -> "prior_foreclosures" \notin d.absent /\ d.prior_foreclosures = 0
      [] id = "PROP-001"    -> d.property_type \in EligiblePropertyTypes
      [] id = "PROP-002"    -> ~d.is_rural
      [] id = "LOAN-001"    -> d.loan_amount >= RULE_MIN_LOAN
      [] id = "LOAN-002"    -> d.loan_amount <= RULE_MAX_LOAN
      [] id = "RESERVE-001" -> d.months_reserves >= RULE_MIN_RESERVES

\* the "message" lambda of a rule raises
MessageRaises(id, d) == id \in FloatFormatRules /\ RuleFact(id) \in d.unformattable

\* the text a rule's "message" lambda builds from (data, passed)
RuleMessage(id, passed) == <<id, IF passed THEN "met" ELSE "not met">>

\* a try block around the check alone: an error of the message formatter is not caught
TryRaisesCheckOnly(id, d) == CheckRaises(id, d)

\* the try block of _evaluate_rule covers the check and the message
TryRaises(id, d) == CheckRaises(id, d) \/ MessageRaises(id, d)

\* RulesEngine._evaluate_rule
EvaluateRule(rule, d) ==
    IF TryRaises(rule.id, d)
    THEN [rule_id |-> rule.id, category |-> rule.category, severity |-> rule.severity,
          status |-> "NOT_APPLICABLE",
          message |-> <<rule.id, "Rule evaluation error">>,
          exception_eligible |-> rule.severity = "EXCEPTION_REQUIRED"]
    ELSE LET passed == RuleCheck(rule.id, d)
         IN [rule_id |-> rule.id, category |-> rule.category, severity |-> rule.severity,
             status |-> IF passed THEN "PASS"
                        ELSE IF rule.severity = "WARNING" THEN "WARNING" ELSE "FAIL",
             message |-> RuleMessage(rule.id, passed),
             exception_eligible |-> rule.severity = "EXCEPTION_REQUIRED"]

IsHardStop(r) == r.status = "FAIL" /\ r.severity = "HARD_STOP"
IsExceptionRequired(r) == r.status = "FAIL" /\ r.severity = "EXCEPTION_REQUIRED"
IsWarning(r) == r.status = "WARNING"

\* overall_status with an exception-required failure escalated to FAIL
OverallStatusExceptionsFail(hard_stops, exceptions_required) ==
    IF Len(hard_stops) > 0 \/ Len(exceptions_required) > 0 THEN "FAIL" ELSE "PASS"

\* overall_status of RulesEngine.evaluate
OverallStatus(hard_stops, exceptions_required) ==
    IF Len(hard_stops) > 0 THEN "FAIL"
    ELSE IF Len(exceptions_required) > 0 THEN "WARNING"
    ELSE "PASS"

\* RulesEngine.evaluate after its loop: the results categorized and counted
Categorize(application_id, results) ==
    LET hard_stops == SelectSeq(results, IsHardStop)
        exceptions_required == SelectSeq(results, IsExceptionRequired)
        warnings == SelectSeq(results, IsWarning)
    IN [application_id |-> application_id,
        overall_status |-> OverallStatus(hard_stops, exceptions_required),
        rule_results |-> results,
        hard_stops |-> hard_stops,
        exceptions_required |-> exceptions_required,
        warnings |-> warnings,
        passed_count |-> Len(SelectSeq(results, LAMBDA r : r.status = "PASS")),
        failed_count |-> Len(SelectSeq(results, LAMBDA r : r.status = "FAIL")),
        warning_count |-> Len(SelectSeq(results, LAMBDA r : r.status = "WARNING"))]

\* RulesEngine.evaluate, without the id and the evaluated_at of its result
Evaluate(d) ==
    Categorize(d.application_id, [i \in 1..Len(Rules) |-> EvaluateRule(Rules[i], d)])

-----------------------------------------------------------------------------
(* Pricing engine: services/pricing.py                                     *)

\* PricingEngine.BASE_RATES, in thousandths of a percent
BaseRate(tier) ==
    CASE tier = "EXCELLENT"  -> 6500
      [] tier = "GOOD"       -> 6875
      [] tier = "ACCEPTABLE" -> 7250
      [] tier = "MARGINAL"   -> 7750
      [] tier = "HIGH_RISK"  -> 8500

\* PricingEngine.DSCR_ADJUSTMENTS, in dict order: <<low, high, bps>>
DSCR_ADJUSTMENTS ==
    << <<150, inf, -25>>, <<125, 150, 0>>, <<110, 125, 25>>, <<100, 110, 50>>,
       <<0, 100, 125>> >>

\* PricingEngine.LTV_ADJUSTMENTS, in dict order: <<low, high, bps>>
LTV_ADJUSTMENTS ==
    << <<0, 65, -25>>, <<65, 70, 0>>, <<70, 75, 25>>, <<75, 80, 50>>, <<80, inf, 100>> >>

\* PricingEngine.CREDIT_ADJUSTMENTS, in dict order: <<low, high, <<bps>> >>, << >> is None
CREDIT_ADJUSTMENTS ==
    << <<760, inf, <<-25>> >>, <<740, 760, <<0>> >>, <<720, 740, <<25>> >>,
       <<700, 720, <<50>> >>, <<680, 700, <<100>> >>, <<660, 680, <<150>> >>,
       <<0, 660, << >> >> >>

\* PricingEngine.PROPERTY_TYPE_ADJUSTMENTS.get(property_type, 50)
PropertyTypeAdjustment(property_type) ==
    CASE property_type = "SFR"               -> 0
      [] property_type = "CONDO"             -> 25
      [] property_type = "TOWNHOUSE"         -> 25
      [] property_type = "DUPLEX"            -> 50
      [] property_type = "TRIPLEX"           -> 75
      [] property_type = "FOURPLEX"          -> 75
      [] property_type = "MULTIFAMILY_5PLUS" -> 125
      [] OTHER                               -> 50

CASH_OUT_BPS == 50

\* minimum requirements of the eligibility gate
MIN_DSCR == 75
MIN_CREDIT_SCORE == 660
MAX_LTV == 80

\* first band of an interval table with low <= x < high, from position i on; 0 = none
RECURSIVE BandIndex(_, _, _)
BandIndex(table, x, i) ==
    IF i > Len(table) THEN 0
    ELSE IF table[i][1] <= x /\ x < table[i][2] THEN i
    ELSE BandIndex(table, x, i + 1)

\* PricingEngine._get_dscr_adjustment
GetDscrAdjustment(dscr) ==
    LET i == BandIndex(DSCR_ADJUSTMENTS, dscr, 1)
    IN IF i = 0 THEN 0 ELSE DSCR_ADJUSTMENTS[i][3]

\* PricingEngine._get_ltv_adjustment
GetLtvAdjustment(ltv) ==
    LET i == BandIndex(LTV_ADJUSTMENTS, ltv, 1)
    IN IF i = 0 THEN 0 ELSE LTV_ADJUSTMENTS[i][3]

\* PricingEngine._get_credit_adjustment: << >> is None
GetCreditAdjustment(score) ==
    LET i == BandIndex(CREDIT_ADJUSTMENTS, score, 1)
    IN IF i = 0 THEN << >> ELSE CREDIT_ADJUSTMENTS[i][3]

\* the score with the DSCR points taken by the half-open band lookup of the adjustment
\* tables (low <= dscr < high): an infinite DSCR scores no DSCR points
RiskScoreBandLookup(p) ==
    (IF 150 <= p.dscr /\ p.dscr < inf THEN 4 ELSE IF 125 <= p.dscr /\ p.dscr < 150 THEN 3
     ELSE IF 110 <= p.dscr /\ p.dscr < 125 THEN 2
     ELSE IF 100 <= p.dscr /\ p.dscr < 110 THEN 1 ELSE 0)
    + (IF p.credit_score >= 760 THEN 4 ELSE IF p.credit_score >= 740 THEN 3
       ELSE IF p.credit_score >= 720 THEN 2 ELSE IF p.credit_score >= 700 THEN 1 ELSE 0)
    + (IF p.ltv <= 65 THEN 4 ELSE IF p.ltv <= 70 THEN 3
       ELSE IF p.ltv <= 75 THEN 2 ELSE IF p.ltv <= 80 THEN 1 ELSE 0)

\* the score of _determine_risk_tier
RiskScore(p) ==
    (IF p.dscr >= 150 THEN 4 ELSE IF p.dscr >= 125 THEN 3
     ELSE IF p.dscr >= 110 THEN 2 ELSE IF p.dscr >= 100 THEN 1 ELSE 0)
    + (IF p.credit_score >= 760 THEN 4 ELSE IF p.credit_score >= 740 THEN 3
       ELSE IF p.credit_score >= 720 THEN 2 ELSE IF p.credit_score >= 700 THEN 1 ELSE 0)
    + (IF p.ltv <= 65 THEN 4 ELSE IF p.ltv <= 70 THEN 3
       ELSE IF p.ltv <= 75 THEN 2 ELSE IF p.ltv <= 80 THEN 1 ELSE 0)

\* the tier map with MARGINAL starting at a score of 3
DetermineRiskTierMarginalAtThree(p) ==
    LET score == RiskScore(p)
    IN IF score >= 10 THEN "EXCELLENT"
       ELSE IF score >= 7 THEN "GOOD"
       ELSE IF score >= 4 THEN "ACCEPTABLE"
       ELSE IF score >= 3 THEN "MARGINAL"
       ELSE "HIGH_RISK"

\* PricingEngine._determine_risk_tier
DetermineRiskTier(p) ==
    LET score == RiskScore(p)
    IN IF score >= 10 THEN "EXCELLENT"
       ELSE IF score >= 7 THEN "GOOD"
       ELSE IF score >= 4 THEN "ACCEPTABLE"
       ELSE IF score >= 2 THEN "MARGINAL"
       ELSE "HIGH_RISK"

\* the gate with the DSCR minimum taken as 1.00, the threshold of rule DSCR-002
IneligibilityReasonsDscrOne(p) ==
    (IF p.credit_score < MIN_CREDIT_SCORE THEN <<"Credit score below minimum">> ELSE << >>)
    \o (IF p.ltv > MAX_LTV THEN <<"LTV exceeds maximum">> ELSE << >>)
    \o (IF p.dscr < 100 THEN <<"DSCR below minimum">> ELSE << >>)

\* the gate with >= for > on the LTV: an LTV of exactly 80 is ineligible
IneligibilityReasonsLtvInclusive(p) ==
    (IF p.credit_score < MIN_CREDIT_SCORE THEN <<"Credit score below minimum">> ELSE << >>)
    \o (IF p.ltv >= MAX_LTV THEN <<"LTV exceeds maximum">> ELSE << >>)
    \o (IF p.dscr < MIN_DSCR THEN <<"DSCR below minimum">> ELSE << >>)

\* the gate with the credit minimum taken as 680, above the threshold of rule CREDIT-001
IneligibilityReasonsCreditGap(p) ==
    (IF p.credit_score < 680 THEN <<"Credit score below minimum">> ELSE << >>)
    \o (IF p.ltv > MAX_LTV THEN <<"LTV exceeds maximum">> ELSE << >>)
    \o (IF p.dscr < MIN_DSCR THEN <<"DSCR below minimum">> ELSE << >>)

\* the eligibility gate of calculate_pricing: one reason per violated minimum
IneligibilityReasons(p) ==
    (IF p.credit_score < MIN_CREDIT_SCORE THEN <<"Credit score below minimum">> ELSE << >>)
    \o (IF p.ltv > MAX_LTV THEN <<"LTV exceeds maximum">> ELSE << >>)
    \o (IF p.dscr < MIN_DSCR THEN <<"DSCR below minimum">> ELSE << >>)

\* the adjustments list of calculate_pricing, in the order the code appends
PricingAdjustments(p) ==
    LET dscr_adj == GetDscrAdjustment(p.dscr)
        ltv_adj == GetLtvAdjustment(p.ltv)
        credit_adj == GetCreditAdjustment(p.credit_score)
        prop_adj == PropertyTypeAdjustment(p.property_type)
    IN (IF dscr_adj # 0
        THEN << [factor |-> "DSCR", adjustment_bps |-> dscr_adj] >> ELSE << >>)
       \o (IF ltv_adj # 0
           THEN << [factor |-> "LTV", adjustment_bps |-> ltv_adj] >> ELSE << >>)
       \o (IF Len(credit_adj) > 0 /\ credit_adj # <<0>>
           THEN << [factor |-> "Credit Score", adjustment_bps |-> credit_adj[1]] >>
           ELSE << >>)
       \o (IF prop_adj # 0
           THEN << [factor |-> "Property Type", adjustment_bps |-> prop_adj] >> ELSE << >>)
       \o (IF p.is_cash_out
           THEN << [factor |-> "Cash Out", adjustment_bps |-> CASH_OUT_BPS] >> ELSE << >>)

\* sum(a.adjustment_bps for a in adjustments)
RECURSIVE SumBps(_)
SumBps(adjustments) ==
    IF adjustments = << >> THEN 0
    ELSE Head(adjustments).adjustment_bps + SumBps(Tail(adjustments))

\* PricingEngine.calculate_pricing; final_rate = round(base_rate + bps / 100, 3)
CalculatePricing(p) ==
    LET ineligibility_reasons == IneligibilityReasons(p)
        risk_tier == DetermineRiskTier(p)
        base_rate == BaseRate(risk_tier)
        adjustments == PricingAdjustments(p)
        total_adjustment_bps == SumBps(adjustments)
    IN [base_rate |-> base_rate,
        adjustments |-> adjustments,
        total_adjustment_bps |-> total_adjustment_bps,
        final_rate |-> base_rate + total_adjustment_bps * 10,
        risk_tier |-> risk_tier,
        eligible |-> Len(ineligibility_reasons) = 0,
        ineligibility_reasons |-> ineligibility_reasons]

-----------------------------------------------------------------------------
(* Decision service: services/decision.py                                  *)

\* pricing_input = None, pricing_result = None
NoPricingInput == [none |-> TRUE]
NoPricingResult == [none |-> TRUE]

\* the resolution with the exception check ahead of the pricing-eligibility check
DetermineDecisionExceptionsFirst(rules_status, hard_stops, exceptions, pricing) ==
    IF Len(hard_stops) > 0
    THEN <<"DECLINED", "HARD_STOP_VIOLATION">>
    ELSE IF Len(exceptions) > 0
    THEN <<"REFERRED", "EXCEPTION_REQUIRED">>
    ELSE IF pricing # NoPricingResult /\ ~pricing.eligible
    THEN <<"DECLINED", "PRICING_INELIGIBLE">>
    ELSE IF pricing # NoPricingResult /\ pricing.risk_tier = "HIGH_RISK"
    THEN <<"REFERRED", "HIGH_RISK">>
    ELSE <<"CONDITIONALLY_APPROVED", "MEETS_GUIDELINES">>

\* the resolution with the pricing-eligibility check ahead of the hard-stop check
DetermineDecisionPricingFirst(rules_status, hard_stops, exceptions, pricing) ==
    IF pricing # NoPricingResult /\ ~pricing.eligible
    THEN <<"DECLINED", "PRICING_INELIGIBLE">>
    ELSE IF Len(hard_stops) > 0
    THEN <<"DECLINED", "HARD_STOP_VIOLATION">>
    ELSE IF Len(exceptions) > 0
    THEN <<"REFERRED", "EXCEPTION_REQUIRED">>
    ELSE IF pricing # NoPricingResult /\ pricing.risk_tier = "HIGH_RISK"
    THEN <<"REFERRED", "HIGH_RISK">>
    ELSE <<"CONDITIONALLY_APPROVED", "MEETS_GUIDELINES">>

\* DecisionService._determine_decision: <<decision_type, decision_reason>>
DetermineDecision(rules_status, hard_stops, exceptions, pricing) ==
    IF Len(hard_stops) > 0
    THEN <<"DECLINED", "HARD_STOP_VIOLATION">>
    ELSE IF pricing # NoPricingResult /\ ~pricing.eligible
    THEN <<"DECLINED", "PRICING_INELIGIBLE">>
    ELSE IF Len(exceptions) > 0
    THEN <<"REFERRED", "EXCEPTION_REQUIRED">>
    ELSE IF pricing # NoPricingResult /\ pricing.risk_tier = "HIGH_RISK"
    THEN <<"REFERRED", "HIGH_RISK">>
    ELSE <<"CONDITIONALLY_APPROVED", "MEETS_GUIDELINES">>

\* a condition that is required whatever the caller passes
ConditionAlwaysRequired(category, description, required) ==
    [category |-> category, description |-> description, required |-> TRUE,
     source |-> "AUTOMATED"]

\* a Condition without its id
Condition(category, description, required) ==
    [category |-> category, description |-> description, required |-> required,
     source |-> "AUTOMATED"]

\* DecisionService._generate_conditions
GenerateConditions(rules, pricing, d) ==
    << Condition("PTD", <<"Verify borrower identity">>, TRUE),
       Condition("PTD", <<"Obtain credit report">>, TRUE),
       Condition("PTD", <<"Verify property ownership/purchase contract">>, TRUE),
       Condition("PTD", <<"Obtain rent schedule or lease agreements">>, TRUE) >>
    \o (IF d.units > 1
        THEN << Condition("PTD", <<"Obtain rent roll for all units">>, TRUE) >>
        ELSE << >>)
    \o << Condition("PTC", <<"Obtain satisfactory appraisal">>, TRUE),
          Condition("PTF", <<"Clear title with no liens">>, TRUE),
          Condition("PTF", <<"Proof of hazard insurance">>, TRUE) >>
    \o [i \in 1..Len(rules.warnings) |->
            Condition("PTD", <<"Address">> \o rules.warnings[i].message, FALSE)]

\* the notes of DecisionService.evaluate
DecisionNotes(rules) ==
    (IF Len(rules.hard_stops) > 0
     THEN << <<"Hard stop violations", Len(rules.hard_stops)>> >>
          \o [i \in 1..Len(rules.hard_stops) |->
                  <<rules.hard_stops[i].rule_id>> \o rules.hard_stops[i].message]
     ELSE << >>)
    \o (IF Len(rules.exceptions_required) > 0
        THEN << <<"Exceptions required", Len(rules.exceptions_required)>> >>
        ELSE << >>)

\* DecisionService.evaluate, step 2: pricing_result stays None without a pricing input
PricingStep(p) == IF p # NoPricingInput THEN CalculatePricing(p) ELSE NoPricingResult

\* DecisionService.evaluate, steps 3 to 5 and the DecisionResult built from the
\* locals rules_result (rules) and pricing_result (pricing)
BuildDecisionResult(d, rules, pricing) ==
    LET decision == DetermineDecision(rules.overall_status, rules.hard_stops,
                                      rules.exceptions_required, pricing)
    IN [application_id |-> d.application_id,
        decision_type |-> decision[1],
        decision_reason |-> decision[2],
        rules_passed |-> rules.overall_status = "PASS",
        hard_stops |-> Len(rules.hard_stops),
        exceptions_required |-> Len(rules.exceptions_required),
        warnings |-> Len(rules.warnings),
        pricing |-> pricing,
        final_rate |-> IF pricing # NoPricingResult THEN <<pricing.final_rate>> ELSE << >>,
        eligible_for_pricing |-> IF pricing # NoPricingResult THEN pricing.eligible ELSE FALSE,
        conditions |-> GenerateConditions(rules, pricing, d),
        details |-> [passed_rules |-> rules.passed_count, failed_rules |-> rules.failed_count],
        notes |-> DecisionNotes(rules)]

-----------------------------------------------------------------------------
(* DSCR calculator: services/dscr.py                                       *)
(* Money is its amount in cents.  An optional field (Money | None,         *)
(* float | None, int | None) is << >> for None and <<v>> for a value.      *)
(* vacancy_rate and management_fee_rate are held in percent, a target DSCR *)
(* in hundredths; products and quotients of Money by these floats are      *)
(* taken exactly before int() truncates them.                              *)

DEFAULT_VACANCY_RATE == 5
DEFAULT_MANAGEMENT_FEE_RATE == 8
MINIMUM_DSCR == 100
PREFERRED_DSCR == 125
UNUSUALLY_HIGH_DSCR == 300

\* int(a / b) for b > 0: truncation toward zero
TruncDiv(a, b) == IF a >= 0 THEN a \div b ELSE -((-a) \div b)

\* "x or default" on an optional number: None and 0 are both falsy
OrDefault(opt, default) == IF opt = << >> \/ opt = <<0>> THEN default ELSE opt[1]

\* "m or Money(0)" on an optional Money: a Money object is truthy whatever its amount
OrZero(opt) == IF opt = << >> THEN 0 ELSE opt[1]

\* DSCRCalculator._add_money, _subtract_money
AddMoney(a, b) == a + b
SubtractMoney(a, b) == a - b

\* DSCRCalculator._multiply_money by the factor num / den
MultiplyMoney(a, num, den) == TruncDiv(a * num, den)

\* DSCRCalculator._divide_money by the divisor num / den (zero divisor gives Money(0))
DivideMoney(a, num, den) == IF num = 0 THEN 0 ELSE TruncDiv(a * den, num)

\* sum of monthly_rent over the entries that are not vacant
RECURSIVE RentRollTotal(_)
RentRollTotal(roll) ==
    IF roll = << >> THEN 0
    ELSE (IF Head(roll).is_vacant THEN 0 ELSE Head(roll).monthly_rent)
         + RentRollTotal(Tail(roll))

UsesStr(i) == i.is_short_term_rental /\ i.str_annualized_income # << >>
UsesRentRoll(i) == ~UsesStr(i) /\ Len(i.rent_roll) > 0

\* DSCRCalculator._calculate_gross_rent: the Money returned
GrossRent(i) ==
    IF UsesStr(i) THEN DivideMoney(i.str_annualized_income[1], 12, 1)
    ELSE IF UsesRentRoll(i) THEN RentRollTotal(i.rent_roll)
    ELSE IF i.gross_monthly_rent # << >> THEN i.gross_monthly_rent[1]
    ELSE 0

\* DSCRCalculator._calculate_gross_rent: the warnings appended
GrossRentWarnings(i) ==
    IF UsesStr(i) THEN << >>
    ELSE IF UsesRentRoll(i)
    THEN IF /\ i.gross_monthly_rent # << >>
            /\ i.gross_monthly_rent[1] > 0
            /\ LET total == RentRollTotal(i.rent_roll)
                   stated == i.gross_monthly_rent[1]
                   diff == IF total >= stated THEN total - stated ELSE stated - total
               IN diff * 10 > stated
         THEN <<"RENT_DISCREPANCY">> ELSE << >>
    ELSE IF i.gross_monthly_rent # << >> THEN << >>
    ELSE <<"NO_RENT_DATA">>

\* DSCRCalculator._apply_vacancy
ApplyVacancy(gross_rent, vacancy_rate) == TruncDiv(gross_rent * (100 - vacancy_rate), 100)

MonthlyOf(annual) == IF annual # << >> THEN DivideMoney(annual[1], 12, 1) ELSE 0

\* DSCRCalculator._calculate_expenses: the breakdown
CalculateExpenses(i, total_gross_income) ==
    LET property_tax_monthly == MonthlyOf(i.annual_property_tax)
        insurance_monthly == MonthlyOf(i.annual_insurance)
        hoa_monthly == OrZero(i.monthly_hoa)
        mgmt_rate == OrDefault(i.management_fee_rate, DEFAULT_MANAGEMENT_FEE_RATE)
        management_fee_monthly == MultiplyMoney(total_gross_income, mgmt_rate, 100)
        flood_insurance_monthly == OrZero(i.monthly_flood_insurance)
        other_expenses == OrZero(i.other_monthly_expenses)
    IN [property_tax_monthly |-> property_tax_monthly,
        insurance_monthly |-> insurance_monthly,
        hoa_monthly |-> hoa_monthly,
        management_fee_monthly |-> management_fee_monthly,
        flood_insurance_monthly |-> flood_insurance_monthly,
        other_expenses |-> other_expenses,
        total_expenses |->
            AddMoney(AddMoney(AddMoney(AddMoney(AddMoney(property_tax_monthly,
                insurance_monthly), hoa_monthly), management_fee_monthly),
                flood_insurance_monthly), other_expenses)]

\* DSCRCalculator._calculate_expenses: the warnings appended
ExpenseWarnings(expenses, total_gross_income) ==
    LET expense_sum == expenses.property_tax_monthly + expenses.insurance_monthly
                       + expenses.hoa_monthly + expenses.management_fee_monthly
    IN IF total_gross_income > 0 /\ 2 * expense_sum > total_gross_income
       THEN <<"HIGH_EXPENSE_RATIO">> ELSE << >>

\* DSCRCalculator._calculate_fixed_expenses
CalculateFixedExpenses(i) ==
    AddMoney(AddMoney(AddMoney(MonthlyOf(i.annual_property_tax),
        MonthlyOf(i.annual_insurance)), OrZero(i.monthly_hoa)),
        OrZero(i.monthly_flood_insurance))

InterestOnly(i) == i.interest_only_months # << >> /\ i.interest_only_months[1] > 0

(* The float arithmetic of _calculate_debt_service.  interest_rate is         *)
(* <<"bp", n>>, the float nearest n / 10000, or <<"ulp", k>>, the float        *)
(* 12 * k * 2^-54, whose monthly rate k * 2^-54 is a quarter of the spacing    *)
(* of the floats just above 1.0.  Reals are enclosed between wide naturals:    *)
(* little-endian sequences of limbs in 0..LIMB-1, with FRAC limbs after the    *)
(* point for a fixed-point fraction.                                           *)
LIMB == 10000
FRAC == 4
\* the float chain is within 1 / EPS of the real value it rounds
EPS == 1000000000

\* the limbs of the number with the given columns (least significant first) and carry
RECURSIVE BigCarry(_, _)
BigCarry(cols, carry) ==
    IF cols = << >>
    THEN IF carry = 0 THEN << >> ELSE <<carry % LIMB>> \o BigCarry(<< >>, carry \div LIMB)
    ELSE LET t == Head(cols) + carry
         IN <<t % LIMB>> \o BigCarry(Tail(cols), t \div LIMB)

RECURSIVE BigTrim(_)
BigTrim(a) == IF a # << >> /\ a[Len(a)] = 0 THEN BigTrim(SubSeq(a, 1, Len(a) - 1)) ELSE a

BigFromNat(n) == BigCarry(<< >>, n)

RECURSIVE BigToNat(_)
BigToNat(a) == IF a = << >> THEN 0 ELSE Head(a) + LIMB * BigToNat(Tail(a))

Limb(a, k) == IF k <= Len(a) THEN a[k] ELSE 0
Max(m, n) == IF m >= n THEN m ELSE n

\* sum of a[j] * b[k + 1 - j] over j >= from
RECURSIVE ColumnSum(_, _, _, _)
ColumnSum(a, b, k, from) ==
    IF from > Len(a) \/ from > k THEN 0
    ELSE a[from] * Limb(b, k + 1 - from) + ColumnSum(a, b, k, from + 1)

BigMul(a, b) ==
    IF a = << >> \/ b = << >> THEN << >>
    ELSE BigTrim(BigCarry([k \in 1..(Len(a) + Len(b) - 1) |-> ColumnSum(a, b, k, 1)], 0))

BigAdd(a, b) ==
    BigTrim(BigCarry([k \in 1..Max(Len(a), Len(b)) |-> Limb(a, k) + Limb(b, k)], 0))

\* a - b for a >= b, from limb k up
RECURSIVE BigBorrow(_, _, _, _)
BigBorrow(a, b, k, borrow) ==
    IF k > Len(a) THEN << >>
    ELSE LET t == a[k] - Limb(b, k) - borrow
         IN IF t < 0 THEN <<t + LIMB>> \o BigBorrow(a, b, k + 1, 1)
            ELSE <<t>> \o BigBorrow(a, b, k + 1, 0)

BigSub(a, b) == BigTrim(BigBorrow(a, b, 1, 0))

\* a < b, comparing limbs k, k - 1, ..., 1
RECURSIVE BigLessFrom(_, _, _)
BigLessFrom(a, b, k) ==
    IF k = 0 THEN FALSE
    ELSE IF Limb(a, k) # Limb(b, k) THEN Limb(a, k) < Limb(b, k)
    ELSE BigLessFrom(a, b, k - 1)

BigLeq(a, b) == ~BigLessFrom(b, a, Max(Len(a), Len(b)))

\* floor(a / LIMB^k)
BigShift(a, k) == IF Len(a) <= k THEN << >> ELSE SubSeq(a, k + 1, Len(a))

\* the largest divisor of the long division by a number (SMALL * LIMB fits the word)
SMALL == 200000

\* floor(a / d) for a divisor d <= SMALL: long division from the top limb down
RECURSIVE BigDivSmallFrom(_, _, _, _)
BigDivSmallFrom(a, d, k, rem) ==
    IF k = 0 THEN << >>
    ELSE LET t == rem * LIMB + a[k]
         IN BigDivSmallFrom(a, d, k - 1, t % d) \o <<t \div d>>

BigDivSmall(a, d) == BigTrim(BigDivSmallFrom(a, d, Len(a), 0))

\* floor(n / d) by bisection, lo * d <= n < hi * d
RECURSIVE BigQuotient(_, _, _, _)
BigQuotient(n, d, lo, hi) ==
    IF hi - lo <= 1 THEN lo
    ELSE LET mid == (lo + hi) \div 2
         IN IF BigLeq(BigMul(BigFromNat(mid), d), n)
            THEN BigQuotient(n, d, mid, hi) ELSE BigQuotient(n, d, lo, mid)

\* floor(n / d) as a number, for a quotient below 2^30
BigDiv(n, d) == IF n = << >> THEN 0 ELSE BigQuotient(n, d, 0, 1073741824)

\* 1.0 and the last place of the fixed-point fraction
FxOne == [k \in 1..(FRAC + 1) |-> IF k = FRAC + 1 THEN 1 ELSE 0]
FxUlp == <<1>>

\* an enclosure <<lo, hi>> of the product of two enclosed reals
FxMul(p, q) ==
    <<BigShift(BigMul(p[1], q[1]), FRAC),
      BigAdd(BigShift(BigMul(p[2], q[2]), FRAC), FxUlp)>>

\* F(v), with the argument v evaluated once however often F refers to it
Eval(F(_), v) == CHOOSE r \in { F(x) : x \in {v} } : TRUE

\* math.pow(p, n), enclosed
RECURSIVE FxPow(_, _)
FxPow(p, n) ==
    IF n = 0 THEN <<FxOne, FxOne>>
    ELSE IF n = 1 THEN p
    ELSE Eval(LAMBDA sq : IF n % 2 = 0 THEN sq ELSE FxMul(sq, p),
              Eval(LAMBDA h : FxMul(h, h), FxPow(p, n \div 2)))

\* 1 + the annual rate, where _calculate_debt_service compounds interest_rate / 12
OnePlusRateAnnual(bp) ==
    LET q == BigDivSmall(BigMul(BigFromNat(bp), FxOne), 10000)
    IN <<BigAdd(FxOne, q), BigAdd(BigAdd(FxOne, q), FxUlp)>>

\* 1 + monthly_rate for a rate of bp / 10000 a year, enclosed
OnePlusRate(bp) ==
    LET q == BigDivSmall(BigMul(BigFromNat(bp), FxOne), 120000)
    IN <<BigAdd(FxOne, q), BigAdd(BigAdd(FxOne, q), FxUlp)>>

\* (1 + k * 2^-54) - 1 in units of 2^-52: the float sum rounds to nearest, ties to even
OnePlusUlps(k) ==
    LET q == k \div 4
        r == k % 4
    IN IF r < 2 THEN q ELSE IF r > 2 THEN q + 1 ELSE IF q % 2 = 0 THEN q ELSE q + 1

IsUlpRate(i) == i.interest_rate[1] = "ulp"
PositiveRate(i) == i.interest_rate[2] > 0

\* int(x * 100) for a float x within 1 / EPS of the real n / d: a value that close to a
\* whole cent lands on either side of it, as the input's pi_rounds says
IntOfFloat(n, d, rounds) ==
    LET Rounded(q) ==
            LET r == BigSub(n, BigMul(BigFromNat(q), d))
                scaled == BigMul(r, BigFromNat(EPS))
            IN IF rounds = "down"
               THEN IF BigLeq(n, scaled) THEN q ELSE q - 1
               ELSE IF BigLeq(BigMul(d, BigFromNat(EPS)), BigAdd(scaled, n))
                    THEN q + 1 ELSE q
    IN Eval(Rounded, IF BigLeq(d, BigFromNat(SMALL))
                     THEN BigToNat(BigDivSmall(n, BigToNat(d))) ELSE BigDiv(n, d))

\* _calculate_debt_service divides by zero on a fully amortizing loan with
\* term_months = 0 (factor - 1 = 0 at a positive rate, loan_dollars / 0 at a zero rate)
\* and with a positive rate so small that 1 + monthly_rate is 1.0 (factor - 1 = 0)
DebtServiceRaises(i) ==
    /\ ~InterestOnly(i)
    /\ \/ i.term_months = 0
       \/ IsUlpRate(i) /\ PositiveRate(i) /\ OnePlusUlps(i.interest_rate[2]) = 0

\* monthly_pi * 100 as a quotient <<n, d>> of wide naturals that the float is close to;
\* the factor f / (f - 1) falls as f rises, so "down" takes the upper end of f
MonthlyPayment(i, rounds) ==
    LET loan == BigFromNat(i.loan_amount)
        rate == BigFromNat(i.interest_rate[2])
        term == BigFromNat(i.term_months)
    IN IF IsUlpRate(i)
       THEN IF InterestOnly(i) \/ ~PositiveRate(i)
            THEN IF InterestOnly(i) THEN << << >>, <<1>> >> ELSE <<loan, term>>
            ELSE <<BigMul(loan, rate),
                   BigMul(BigMul(<<4>>, term), BigFromNat(OnePlusUlps(i.interest_rate[2])))>>
       ELSE IF InterestOnly(i)
       THEN <<BigMul(loan, rate), BigFromNat(120000)>>
       ELSE IF PositiveRate(i)
       THEN LET Payment(f) ==
                    LET factor == IF rounds = "down" THEN f[2] ELSE f[1]
                    IN <<BigMul(BigMul(loan, rate), factor),
                         BigMul(BigFromNat(120000), BigSub(factor, FxOne))>>
            IN Eval(Payment,
                    Eval(LAMBDA p : FxPow(p, i.term_months),
                         OnePlusRate(i.interest_rate[2])))
       ELSE <<loan, term>>

\* int(monthly_pi * 100) of _calculate_debt_service
PrincipalAndInterest(i) ==
    Eval(LAMBDA payment : IntOfFloat(payment[1], payment[2], i.pi_rounds),
         MonthlyPayment(i, i.pi_rounds))

\* DSCRCalculator._calculate_debt_service
CalculateDebtService(i) ==
    LET Breakdown(principal_and_interest) ==
            [principal_and_interest |-> principal_and_interest,
             total_pitia |->
                 AddMoney(AddMoney(AddMoney(principal_and_interest,
                     MonthlyOf(i.annual_property_tax)), MonthlyOf(i.annual_insurance)),
                     OrZero(i.monthly_hoa))]
    IN Eval(Breakdown, PrincipalAndInterest(i))

\* the ratio with the zero-PITIA guard taken only for a NOI that is not negative
CalculateRatioSignedGuard(noi, debt_service) ==
    IF debt_service = 0 /\ noi >= 0 THEN [inf |-> TRUE, num |-> 0, den |-> 1]
    ELSE [inf |-> FALSE, num |-> noi, den |-> debt_service]

\* DSCRCalculator._calculate_ratio: the float noi / debt_service as a fraction
CalculateRatio(noi, debt_service) ==
    IF debt_service = 0 THEN [inf |-> TRUE, num |-> 0, den |-> 1]
    ELSE [inf |-> FALSE, num |-> noi, den |-> debt_service]

\* ratio < h / 100 and ratio >= h / 100 and ratio > h / 100, h in hundredths
RatioLT(r, h) == ~r.inf /\ r.num * 100 < h * r.den
\* ratio >= h / 100 that leaves out the infinite ratio
RatioGEFiniteOnly(r, h) == ~r.inf /\ r.num * 100 >= h * r.den
RatioGE(r, h) == ~RatioLT(r, h)
RatioGT(r, h) == r.inf \/ r.num * 100 > h * r.den

\* DSCRCalculator._validate_result: the warnings appended
ValidateResult(dscr_ratio) ==
    (IF RatioLT(dscr_ratio, MINIMUM_DSCR) THEN <<"BELOW_MINIMUM_DSCR">>
     ELSE IF RatioLT(dscr_ratio, PREFERRED_DSCR) THEN <<"BELOW_PREFERRED_DSCR">>
     ELSE << >>)
    \o (IF RatioGT(dscr_ratio, UNUSUALLY_HIGH_DSCR) THEN <<"UNUSUALLY_HIGH_DSCR">>
        ELSE << >>)

\* DSCRCalculator.calculate, where _calculate_debt_service does not raise
Calculate(i) ==
    LET Result(debt_service) ==
            LET gross_monthly_rent == GrossRent(i)
                vacancy_rate == OrDefault(i.vacancy_rate, DEFAULT_VACANCY_RATE)
                effective_gross_rent == ApplyVacancy(gross_monthly_rent, vacancy_rate)
                total_gross_income == AddMoney(effective_gross_rent, OrZero(i.other_income))
                expenses == CalculateExpenses(i, total_gross_income)
                noi_monthly == SubtractMoney(total_gross_income, expenses.total_expenses)
                dscr_ratio == CalculateRatio(noi_monthly, debt_service.total_pitia)
            IN [income |-> [gross_monthly_rent |-> gross_monthly_rent,
                            vacancy_rate |-> vacancy_rate,
                            effective_gross_rent |-> effective_gross_rent,
                            other_income |-> i.other_income],
                expenses |-> expenses,
                noi |-> [monthly |-> noi_monthly, annual |-> MultiplyMoney(noi_monthly, 12, 1)],
                debt_service |-> debt_service,
                dscr_ratio |-> dscr_ratio,
                warnings |-> GrossRentWarnings(i) \o ExpenseWarnings(expenses, total_gross_income)
                             \o ValidateResult(dscr_ratio),
                meets_minimum |-> RatioGE(dscr_ratio, MINIMUM_DSCR),
                minimum_required |-> MINIMUM_DSCR]
    IN Eval(Result, CalculateDebtService(i))

\* DSCRCalculator.calculate_required_rent, where _calculate_debt_service does not raise
CalculateRequiredRent(i, target_dscr) ==
    LET target == OrDefault(target_dscr, MINIMUM_DSCR)
        debt_service == CalculateDebtService(i)
        required_noi == MultiplyMoney(debt_service.total_pitia, target, 100)
        fixed_expenses == CalculateFixedExpenses(i)
        required_gross_before_vacancy == AddMoney(required_noi, fixed_expenses)
        vacancy_rate == OrDefault(i.vacancy_rate, DEFAULT_VACANCY_RATE)
        required_gross_rent ==
            DivideMoney(required_gross_before_vacancy, 100 - vacancy_rate, 100)
        mgmt_rate == OrDefault(i.management_fee_rate, DEFAULT_MANAGEMENT_FEE_RATE)
    IN DivideMoney(required_gross_rent, 100 - mgmt_rate, 100)

\* interest_rate + 0.01
RateIncrease(rate) == IF rate[1] = "bp" THEN <<"bp", rate[2] + 100>> ELSE <<"bp", 100>>

\* DSCRCalculator.calculate_scenarios: the copies of the input with one field overridden
HighVacancyInput(i) == [i EXCEPT !.vacancy_rate = <<10>>]
RateIncreaseInput(i, rounds) ==
    [i EXCEPT !.interest_rate = RateIncrease(i.interest_rate), !.pi_rounds = rounds]
RentDecreaseInput(i) ==
    [i EXCEPT !.gross_monthly_rent = <<TruncDiv(i.gross_monthly_rent[1] * 90, 100)>>]

\* a DSCRScenario: its name, its adjustments and the dscr_ratio of calculate on the input
Scenario(name, adjustments, i) ==
    [name |-> name, adjustments |-> adjustments, dscr_result |-> Calculate(i).dscr_ratio]

\* calculate_scenarios raises where one of its calls of calculate raises
ScenariosRaise(i) ==
    DebtServiceRaises(i) \/ DebtServiceRaises(RateIncreaseInput(i, "down"))

\* DSCRCalculator.calculate_scenarios, where calculate does not raise
CalculateScenarios(i, rounds) ==
    << Scenario("Base Case", << >>, i),
       Scenario("High Vacancy", <<"vacancy_rate", 10>>, HighVacancyInput(i)),
       Scenario("Rate +1%", <<"interest_rate", RateIncrease(i.interest_rate)>>,
                RateIncreaseInput(i, rounds)) >>
    \o (IF i.gross_monthly_rent # << >>
        THEN << Scenario("Rent -10%", <<"rent_adjustment", -10>>, RentDecreaseInput(i)) >>
        ELSE << >>)

\* calculate_max_loan_amount: loan_amount_cents as <<numerator, denominator>> for a
\* positive max_pi
LoanFromPayment(i, max_pi, rounds) ==
    LET pi == BigFromNat(max_pi)
        term == BigFromNat(i.term_months)
    IN IF ~PositiveRate(i) THEN <<BigMul(pi, term), <<1>> >>
       ELSE IF IsUlpRate(i)
       THEN <<BigMul(BigMul(BigMul(<<4>>, pi), term),
                     BigFromNat(OnePlusUlps(i.interest_rate[2]))),
              BigFromNat(i.interest_rate[2])>>
       ELSE LET Loan(f) ==
                    LET factor == IF rounds = "down" THEN f[1] ELSE f[2]
                    IN <<BigMul(BigMul(pi, BigFromNat(120000)), BigSub(factor, FxOne)),
                         BigMul(BigFromNat(i.interest_rate[2]), factor)>>
            IN Eval(Loan,
                    Eval(LAMBDA p : FxPow(p, i.term_months),
                         OnePlusRate(i.interest_rate[2])))

\* DSCRCalculator.calculate_max_loan_amount: its locals and the Money it returns (amount)
CalculateMaxLoanAmount(i, target_dscr) ==
    LET target == OrDefault(target_dscr, MINIMUM_DSCR)
        gross_monthly_rent == OrZero(i.gross_monthly_rent)
        vacancy_rate == OrDefault(i.vacancy_rate, DEFAULT_VACANCY_RATE)
        effective_gross_rent == ApplyVacancy(gross_monthly_rent, vacancy_rate)
        expenses == CalculateExpenses(i, effective_gross_rent)
        noi_monthly == SubtractMoney(effective_gross_rent, expenses.total_expenses)
        max_pitia == DivideMoney(noi_monthly, target, 100)
        ti_monthly == AddMoney(expenses.property_tax_monthly,
                               AddMoney(expenses.insurance_monthly, expenses.hoa_monthly))
        max_pi == SubtractMoney(max_pitia, ti_monthly)
    IN [noi_monthly |-> noi_monthly, max_pitia |-> max_pitia, max_pi |-> max_pi,
        amount |-> IF max_pi <= 0 THEN 0
                   ELSE IF ~PositiveRate(i) THEN max_pi * i.term_months
                   ELSE Eval(LAMBDA loan : IntOfFloat(loan[1], loan[2], i.pi_rounds),
                             LoanFromPayment(i, max_pi, i.pi_rounds))]

-----------------------------------------------------------------------------
(* Workflow engine: services/workflow.py                                   *)

\* the members of Milestone
Milestones ==
    { "LEADS", "LEADS_VERIFIED", "CONTACTED", "REACHED_LANDING", "VERIFIED_INFO",
      "STARTED", "APPLICATION", "PRE_APPROVED", "PROCESSING", "SUBMITTED",
      "CONDITIONALLY_APPROVED", "APPROVED", "DOCS_OUT", "DOCS_BACK", "CLEAR_TO_CLOSE",
      "CLOSING", "FUNDED", "COMPLETION", "DENIED", "WITHDRAWN" }

\* the keys of VALID_TRANSITIONS: every milestone but COMPLETION, DENIED and WITHDRAWN
TransitionKeys == Milestones \ { "COMPLETION", "DENIED", "WITHDRAWN" }

VALID_TRANSITIONS ==
    [m \in TransitionKeys |->
        CASE m = "LEADS" -> <<"LEADS_VERIFIED", "WITHDRAWN">>
          [] m = "LEADS_VERIFIED" -> <<"CONTACTED", "WITHDRAWN">>
          [] m = "CONTACTED" -> <<"REACHED_LANDING", "WITHDRAWN">>
          [] m = "REACHED_LANDING" -> <<"VERIFIED_INFO", "WITHDRAWN">>
          [] m = "VERIFIED_INFO" -> <<"STARTED", "FUNDED", "WITHDRAWN">>
          [] m = "STARTED" -> <<"APPLICATION", "WITHDRAWN">>
          [] m = "APPLICATION" -> <<"PRE_APPROVED", "DENIED", "WITHDRAWN">>
          [] m = "PRE_APPROVED" -> <<"PROCESSING", "DENIED", "WITHDRAWN">>
          [] m = "PROCESSING" -> <<"SUBMITTED", "DENIED", "WITHDRAWN">>
          [] m = "SUBMITTED" -> <<"CONDITIONALLY_APPROVED", "DENIED", "WITHDRAWN">>
          [] m = "CONDITIONALLY_APPROVED" -> <<"APPROVED", "DENIED", "WITHDRAWN">>
          [] m = "APPROVED" -> <<"DOCS_OUT", "WITHDRAWN">>
          [] m = "DOCS_OUT" -> <<"DOCS_BACK", "WITHDRAWN">>
          [] m = "DOCS_BACK" -> <<"CLEAR_TO_CLOSE", "WITHDRAWN">>
          [] m = "CLEAR_TO_CLOSE" -> <<"CLOSING", "WITHDRAWN">>
          [] m = "CLOSING" -> <<"FUNDED", "WITHDRAWN">>
          [] m = "FUNDED" -> <<"COMPLETION">>]

\* the keys of MILESTONE_TASKS
TaskKeys ==
    { "STARTED", "APPLICATION", "PRE_APPROVED", "PROCESSING", "CONDITIONALLY_APPROVED",
      "APPROVED", "DOCS_OUT", "CLEAR_TO_CLOSE" }

\* <<title, assigned_role, sla_hours>> of the tasks generated at each milestone
MILESTONE_TASKS ==
    [m \in TaskKeys |->
        CASE m = "STARTED" -> << <<"Verify borrower identity", "PROCESSOR", 24>>,
                                 <<"Order credit report", "PROCESSOR", 4>>,
                                 <<"Collect income documentation", "PROCESSOR", 48>> >>
          [] m = "APPLICATION" -> << <<"Review application completeness", "PROCESSOR", 24>>,
                                     <<"Order AVM", "PROCESSOR", 4>>,
                                     <<"Calculate DSCR", "PROCESSOR", 8>> >>
          [] m = "PRE_APPROVED" -> << <<"Order appraisal", "PROCESSOR", 24>>,
                                      <<"Order title", "PROCESSOR", 24>>,
                                      <<"Send pre-approval letter", "LOAN_OFFICER", 4>> >>
          [] m = "PROCESSING" -> << <<"Review appraisal", "UNDERWRITER", 24>>,
                                    <<"Verify rent schedule", "PROCESSOR", 24>>,
                                    <<"Clear conditions", "PROCESSOR", 72>> >>
          [] m = "CONDITIONALLY_APPROVED" ->
                 << <<"Review conditions", "UNDERWRITER", 24>>,
                    <<"Verify condition clearance", "UNDERWRITER", 24>> >>
          [] m = "APPROVED" -> << <<"Prepare closing disclosure", "CLOSER", 24>>,
                                  <<"Schedule closing", "CLOSER", 48>> >>
          [] m = "DOCS_OUT" -> << <<"Send documents for signing", "CLOSER", 24>>,
                                  <<"Confirm signing appointment", "CLOSER", 24>> >>
          [] m = "CLEAR_TO_CLOSE" -> << <<"Final review", "CLOSER", 8>>,
                                        <<"Wire funds", "CLOSER", 24>> >>]

\* VALID_TRANSITIONS.get(from_milestone, [])
ValidNext(from_milestone) ==
    IF from_milestone \in DOMAIN VALID_TRANSITIONS THEN VALID_TRANSITIONS[from_milestone]
    ELSE << >>

\* MILESTONE_TASKS.get(milestone, [])
TaskTemplates(milestone) ==
    IF milestone \in DOMAIN MILESTONE_TASKS THEN MILESTONE_TASKS[milestone] ELSE << >>

\* x in list
Contains(list, x) == \E k \in 1..Len(list) : list[k] = x

\* WorkflowEngine.transition raises ValueError; from_milestone is << >> for None
TransitionRaises(from_milestone, to_milestone) ==
    from_milestone # << >> /\ ~Contains(ValidNext(from_milestone[1]), to_milestone)

\* the MilestoneTransition of WorkflowEngine.transition
MilestoneTransitionOf(id, application_id, from_milestone, to_milestone, at, by) ==
    [id |-> id, application_id |-> application_id, from_milestone |-> from_milestone,
     to_milestone |-> to_milestone, transitioned_at |-> at, transitioned_by |-> by,
     reason |-> << >>]

\* WorkflowEngine._generate_milestone_tasks: the tasks appended, with the uuids that
\* follow first_id; due_at is sla_hours after the clock reading at
GenerateMilestoneTasks(application_id, milestone, first_id, at) ==
    LET task_templates == TaskTemplates(milestone)
    IN [k \in 1..Len(task_templates) |->
           [id |-> first_id + k, application_id |-> application_id,
            title |-> task_templates[k][1], status |-> "PENDING", priority |-> "MEDIUM",
            assigned_role |-> task_templates[k][2], sla_hours |-> task_templates[k][3],
            due_at |-> [at |-> at, hours |-> task_templates[k][3]]]]

\* the applications whose milestones are recorded
Applications == { "app-1", "app-2" }

\* the milestones callers pass to transition: one with tasks, the one before
\* COMPLETION, and the three without an entry in VALID_TRANSITIONS
CallMilestones == { "APPLICATION", "FUNDED", "COMPLETION", "DENIED", "WITHDRAWN" }

\* the largest number of transitions recorded over all applications
MaxTransitions == 3

-----------------------------------------------------------------------------
(* Inputs                                                                  *)

\* largest prior_bankruptcies / prior_foreclosures count of an input
MaxPrior == 1
\* largest units count of an input
MaxUnits == 2

\* DSCR ratios (hundredths) around every threshold of the rule table and the pricing
\* tables, with the ratios the calculator yields for a negative NOI and a zero PITIA
DscrValues == {-50, 0, 74, 75, 99, 100, 109, 110, 124, 125, 149, 150, 310, inf}
LtvValues == {0, 64, 65, 66, 70, 71, 75, 76, 80, 81}
CreditValues == {300, 659, 660, 679, 680, 699, 700, 720, 740, 759, 760}
PropertyTypes == {"SFR", "CONDO", "MULTIFAMILY_5PLUS", "MOBILE_HOME"}
LoanAmounts == {9999999, 10000000, 300000000, 300000001}

\* <<absent, unformattable>>: every fact a number, one fact None, or one fact a number
\* the float format spec rejects
FactKinds ==
    { <<{}, {}>> }
    \cup { <<{f}, {}>> : f \in {"dscr", "ltv", "credit_score", "loan_amount",
                                "months_reserves", "prior_bankruptcies"} }
    \cup { <<{}, {f}>> : f \in {"dscr", "ltv", "loan_amount"} }

\* a fact that is None carries no number
ClearAbsent(d) ==
    [d EXCEPT !.dscr = IF "dscr" \in d.absent THEN 0 ELSE @,
              !.ltv = IF "ltv" \in d.absent THEN 0 ELSE @,
              !.credit_score = IF "credit_score" \in d.absent THEN 0 ELSE @,
              !.loan_amount = IF "loan_amount" \in d.absent THEN 0 ELSE @,
              !.months_reserves = IF "months_reserves" \in d.absent THEN 0 ELSE @,
              !.prior_bankruptcies = IF "prior_bankruptcies" \in d.absent THEN 0 ELSE @]

\* LoanData records over the given values of each fact
LoanDataSet(D, L, C, PT, LA, R, MR, PB, PF, U, K) ==
    { ClearAbsent([application_id |-> "app-1",
                   dscr |-> f[1], ltv |-> f[2], credit_score |-> f[3],
                   property_type |-> g[1], loan_amount |-> g[2], is_rural |-> g[3],
                   months_reserves |-> g[4],
                   prior_bankruptcies |-> h[1], prior_foreclosures |-> h[2], units |-> h[3],
                   absent |-> k[1], unformattable |-> k[2]]) :
        f \in D \X L \X C, g \in PT \X LA \X R \X MR, h \in PB \X PF \X U, k \in K }

\* LoanData handed to rules_engine.evaluate
RulesLoanData ==
    LoanDataSet({-50, 74, 75, 99, 100, inf}, {75, 76, 80, 81}, {659, 660, 699, 700},
                {"SFR", "MOBILE_HOME"}, LoanAmounts, BOOLEAN, {5, 6},
                0..MaxPrior, 0..MaxPrior, {1}, FactKinds)

\* PricingInput handed to pricing_engine.calculate_pricing
PricingInputs ==
    [dscr : DscrValues, ltv : LtvValues, credit_score : CreditValues,
     property_type : PropertyTypes, loan_amount : {10000000, 300000001},
     is_cash_out : BOOLEAN]

\* the PricingInput a caller assembles from the facts of the LoanData
PricingOf(d, cash_out) ==
    [dscr |-> d.dscr, ltv |-> d.ltv, credit_score |-> d.credit_score,
     property_type |-> d.property_type, loan_amount |-> d.loan_amount,
     is_cash_out |-> cash_out]

\* PricingInputs that differ from the LoanData: ineligible, HIGH_RISK, EXCELLENT
PricingProbes ==
    { [dscr |-> 50, ltv |-> 70, credit_score |-> 760, property_type |-> "SFR",
       loan_amount |-> 10000000, is_cash_out |-> FALSE],
      [dscr |-> 99, ltv |-> 80, credit_score |-> 660, property_type |-> "SFR",
       loan_amount |-> 10000000, is_cash_out |-> FALSE],
      [dscr |-> 150, ltv |-> 65, credit_score |-> 760, property_type |-> "SFR",
       loan_amount |-> 10000000, is_cash_out |-> TRUE] }

\* LoanData handed to decision_service.evaluate
DecisionLoanData ==
    LoanDataSet({74, 75, 99, 100, inf}, {75, 80, 81}, {659, 660, 700},
                {"SFR", "MOBILE_HOME"}, {10000000, 300000001}, BOOLEAN, {5, 6},
                0..MaxPrior, 0..MaxPrior, 1..MaxUnits,
                { <<{}, {}>>, <<{"credit_score"}, {}>>, <<{"months_reserves"}, {}>> })

\* the pricing_input argument of decision_service.evaluate: omitted, assembled from
\* the LoanData (when its facts are numbers), or one that differs from it
PricingOptions(d) ==
    {NoPricingInput}
    \cup (IF d.absent \cap {"dscr", "ltv", "credit_score"} = {}
          THEN {PricingOf(d, FALSE)} ELSE {})
    \cup PricingProbes

\* the LoanData of a run that calls neither the rules engine nor the decision service
BlankLoanData ==
    [application_id |-> "app-1", dscr |-> 100, ltv |-> 75, credit_score |-> 700,
     property_type |-> "SFR", loan_amount |-> 10000000, is_rural |-> FALSE,
     months_reserves |-> 6, prior_bankruptcies |-> 0, prior_foreclosures |-> 0,
     units |-> 1, absent |-> {}, unformattable |-> {}]

\* rent rolls: none, one let unit, a let and a vacant unit, two let units
RentRolls ==
    { << >>,
      << [monthly_rent |-> 180000, is_vacant |-> FALSE] >>,
      << [monthly_rent |-> 180000, is_vacant |-> FALSE],
         [monthly_rent |-> 150000, is_vacant |-> TRUE] >>,
      << [monthly_rent |-> 180000, is_vacant |-> FALSE],
         [monthly_rent |-> 170000, is_vacant |-> FALSE] >> }

\* <<annual_property_tax, annual_insurance, monthly_hoa>>
TaxInsuranceHoa == { << << >>, << >>, << >> >>, << <<720000>>, <<180000>>, <<5000>> >> }

\* <<loan_amount, interest_rate, term_months, interest_only_months>>: no loan, and an
\* interest-only loan
PlainLoanTerms ==
    { <<0, <<"bp", 0>>, 360, << >> >>, <<24000100, <<"bp", 600>>, 360, <<120>> >> }

\* loans at a zero rate, amortizing over 1 and over 360 months, interest-only, with a
\* term of zero months, and at rates of 1 and 3 quarter-spacings of the floats above 1.0
LoanTerms ==
    PlainLoanTerms
    \cup { <<60000, <<"bp", 0>>, 2, << >> >>, <<100000, <<"bp", 1200>>, 1, << >> >>,
           <<45000000, <<"bp", 725>>, 360, << >> >>,
           <<24000000, <<"bp", 600>>, 360, <<120>> >>,
           <<100000, <<"bp", 1200>>, 0, << >> >>,
           <<45000000, <<"ulp", 1>>, 360, << >> >>,
           <<45000000, <<"ulp", 3>>, 360, << >> >> }

\* <<is_short_term_rental, str_annualized_income>>
ShortTermRental == { <<FALSE, << >> >>, <<TRUE, << >> >>, <<TRUE, <<3600000>> >> }

\* the DSCRCalculationInput with rental income r, expenses e, loan terms t[1], short-term
\* rental fields t[2] and a payment rounding the way rounds says
DscrInputOf(r, e, t, rounds) ==
    [gross_monthly_rent |-> r[1], rent_roll |-> r[2], vacancy_rate |-> r[3],
     other_income |-> r[4],
     annual_property_tax |-> e[1][1], annual_insurance |-> e[1][2],
     monthly_hoa |-> e[1][3], management_fee_rate |-> e[2],
     monthly_flood_insurance |-> e[3], other_monthly_expenses |-> e[4],
     loan_amount |-> t[1][1], interest_rate |-> t[1][2], term_months |-> t[1][3],
     interest_only_months |-> t[1][4],
     is_short_term_rental |-> t[2][1], str_annualized_income |-> t[2][2],
     pi_rounds |-> rounds]

\* the ways int(monthly_pi * 100) can land for the loan terms: one, unless the
\* payment is within 1 / EPS of a whole cent
PiRoundings(t) ==
    LET i(rounds) == [loan_amount |-> t[1], interest_rate |-> t[2], term_months |-> t[3],
                      interest_only_months |-> t[4], pi_rounds |-> rounds]
    IN IF DebtServiceRaises(i("down"))
          \/ PrincipalAndInterest(i("down")) = PrincipalAndInterest(i("up"))
       THEN {"down"} ELSE {"down", "up"}

\* DSCRCalculationInput handed to dscr_calculator: every kind of income and expense on
\* the plain loans, and every loan on a stated rent with or without tax and insurance
DscrInputs ==
    { DscrInputOf(r, e, t, "down") :
        r \in { << >>, <<0>>, <<350000>> } \X RentRolls \X { << >>, <<0>>, <<10>> }
               \X { << >>, <<20000>> },
        e \in TaxInsuranceHoa \X { << >>, <<0>>, <<10>> } \X { << >>, <<3000>> }
               \X { << >>, <<10000>> },
        t \in PlainLoanTerms \X ShortTermRental }
    \cup UNION { { DscrInputOf(r, e, <<t, <<FALSE, << >> >> >>, rounds) :
                    r \in { << >>, <<350000>> } \X { << >> } \X { <<5>> } \X { << >> },
                    e \in { << << >>, << >>, << >> >>, << <<720000>>, <<180000>>, <<0>> >> }
                           \X { << >> } \X { << >> } \X { << >>, <<10000>> },
                    rounds \in PiRoundings(t) } : t \in LoanTerms }

\* the DSCRCalculationInput of a run that does not call the calculator
BlankDscrInput ==
    [gross_monthly_rent |-> << >>, rent_roll |-> << >>, vacancy_rate |-> << >>,
     other_income |-> << >>, annual_property_tax |-> << >>, annual_insurance |-> << >>,
     monthly_hoa |-> << >>, management_fee_rate |-> << >>,
     monthly_flood_insurance |-> << >>, other_monthly_expenses |-> << >>,
     loan_amount |-> 0, interest_rate |-> <<"bp", 0>>, term_months |-> 360,
     interest_only_months |-> << >>,
     is_short_term_rental |-> FALSE, str_annualized_income |-> << >>,
     pi_rounds |-> "down"]

\* the scenario of the offer: $450,000 at 7.25% over 360 months, $7,200 tax and $1,800
\* insurance a year, no HOA, $3,500 rent at 5% vacancy, every other field at its default
ScenarioInput ==
    DscrInputOf(<< <<350000>>, << >>, <<5>>, << >> >>,
                << << <<720000>>, <<180000>>, <<0>> >>, << >>, << >>, << >> >>,
                << <<45000000, <<"bp", 725>>, 360, << >> >>, <<FALSE, << >> >> >>, "down")

\* LoanData of concurrent callers: a clean application, and one with an exception
\* and two warnings on a two-unit property
ReferredLoanData ==
    [BlankLoanData EXCEPT !.dscr = 99, !.ltv = 80, !.credit_score = 660, !.units = 2]

\* a PricingInput below the minimum DSCR
IneligiblePricingInput ==
    [dscr |-> 50, ltv |-> 70, credit_score |-> 760, property_type |-> "SFR",
     loan_amount |-> 10000000, is_cash_out |-> FALSE]

\* the scenario loan with a term of zero months
ZeroTermInput == [ScenarioInput EXCEPT !.term_months = 0]

\* <<loan_amount, term_months, interest_only_months>> of the loans priced at several
\* rates: amortizing over 360 months and over 1 month, interest-only, and no loan
RateLoans ==
    { <<45000000, 360, << >> >>, <<100000, 1, << >> >>, <<24000000, 360, <<120>> >>,
      <<0, 360, << >> >> }

\* interest rates: zero, 1, 3 and 4 quarter-spacings of the floats above 1.0 a month,
\* 7.25% and 12% a year
Rates == { <<"bp", 0>>, <<"ulp", 1>>, <<"ulp", 3>>, <<"ulp", 4>>, <<"bp", 725>>, <<"bp", 1200>> }

\* interest_rate a < interest_rate b
RateLess(a, b) ==
    IF a[1] = b[1] THEN a[2] < b[2]
    ELSE IF a[1] = "ulp" THEN b[2] > 0
    ELSE a[2] = 0 /\ b[2] > 0

\* DSCRCalculationInput of the loans priced at several rates, with and without rent,
\* tax and insurance
RateInputs ==
    UNION { { DscrInputOf(e[1], e[2], << <<l[1], r, l[2], l[3]>>, <<FALSE, << >> >> >>, rounds) :
                rounds \in PiRoundings(<<l[1], r, l[2], l[3]>>) } :
            l \in RateLoans, r \in Rates,
            e \in { << << << >>, << >>, << >>, << >> >>,
                       << << << >>, << >>, << >> >>, << >>, << >>, << >> >> >>,
                    << << <<350000>>, << >>, <<5>>, << >> >>,
                       << << <<720000>>, <<180000>>, <<0>> >>, << >>, << >>, << >> >> >> } }

\* two inputs that differ only in interest_rate
SameButRate(i, j) ==
    /\ i.interest_rate # j.interest_rate
    /\ [i EXCEPT !.interest_rate = j.interest_rate, !.pi_rounds = j.pi_rounds] = j

\* DSCRCalculationInput handed to calculate_scenarios and calculate_max_loan_amount:
\* with and without a stated rent, a rent roll, a vacancy rate of 20%, other income,
\* tax and insurance, other expenses of $1,000 a month, short-term-rental income, on no
\* loan and on the scenario loan
StressInputs ==
    { DscrInputOf(r, e, t, "down") :
        r \in { << >>, <<350000>> }
               \X { << >>, << [monthly_rent |-> 180000, is_vacant |-> FALSE] >> }
               \X { << >>, <<20>> } \X { << >>, <<20000>> },
        e \in { << << >>, << >>, << >> >>, << <<720000>>, <<180000>>, <<0>> >> }
               \X { << >> } \X { << >> } \X { << >>, <<100000>> },
        t \in { <<0, <<"bp", 0>>, 360, << >> >>, <<45000000, <<"bp", 725>>, 360, << >> >> }
               \X { <<FALSE, << >> >>, <<TRUE, <<3600000>> >> } }

\* target_dscr arguments: omitted, 1.00, 1.25
TargetDscrs == { << >>, <<100>>, <<125>> }

-----------------------------------------------------------------------------
(* Calls                                                                   *)

NoRulesResult == [none |-> TRUE]
NoDecisionResult == [none |-> TRUE]

NoDscrResult == [none |-> TRUE]
NoMaxLoan == [none |-> TRUE]
DscrRaised == [raised |-> "ZeroDivisionError"]

NoResults ==
    /\ rules_result = NoRulesResult
    /\ pricing_result = NoPricingResult
    /\ decision_result = NoDecisionResult
    /\ required_rent = 0
    /\ dscr_result = NoDscrResult
    /\ scenarios = << >>
    /\ max_loan = NoMaxLoan
    /\ pc = "start"

\* the calculator is not called
NoDscrInput ==
    /\ dscr_input = BlankDscrInput
    /\ rent_target = << >>

\* the adjustment tables of PricingEngine
PricingTables ==
    [dscr |-> DSCR_ADJUSTMENTS, ltv |-> LTV_ADJUSTMENTS, credit |-> CREDIT_ADJUSTMENTS]

\* the callers that share the module-level engines
Callers == {"c1", "c2"}

NoCall == [kind |-> "none", pc |-> "done"]

\* the shared engines as constructed, the clock at its start, no uuid handed out
EnginesConstructed ==
    /\ engine_rules = Rules
    /\ pricing_tables = PricingTables
    /\ uuids_issued = 0
    /\ now = 0
    /\ transitions = [a \in Applications |-> << >>]
    /\ tasks = [a \in Applications |-> << >>]

\* no call is in flight
NoCalls ==
    /\ EnginesConstructed
    /\ calls = [c \in Callers |-> NoCall]

\* rules_engine.evaluate(loan_data)
RulesEvaluate ==
    /\ pc = "start"
    /\ rules_result' = Evaluate(loan_data)
    /\ pc' = "rules"
    /\ UNCHANGED <<loan_data, pricing_input, pricing_result, decision_result, dscrVars,
                   callVars, workflowVars>>

\* pricing_engine.calculate_pricing(pricing_input)
PricingCalculate ==
    /\ pc = "start"
    /\ pricing_input # NoPricingInput
    /\ pricing_result' = CalculatePricing(pricing_input)
    /\ pc' = "priced"
    /\ UNCHANGED <<loan_data, pricing_input, rules_result, decision_result, dscrVars,
                   callVars, workflowVars>>

\* decision_service.evaluate(loan_data, pricing_input); rules_result and pricing_result
\* hold the locals of that name
DecisionEvaluate ==
    /\ pc = "start"
    /\ rules_result' = Evaluate(loan_data)
    /\ pricing_result' = PricingStep(pricing_input)
    /\ decision_result' = BuildDecisionResult(loan_data, rules_result', pricing_result')
    /\ pc' = "decided"
    /\ UNCHANGED <<loan_data, pricing_input, dscrVars, callVars, workflowVars>>

\* the decision service and its inputs
Init ==
    /\ loan_data \in DecisionLoanData
    /\ pricing_input \in PricingOptions(loan_data)
    /\ NoDscrInput
    /\ NoResults
    /\ NoCalls

Next == DecisionEvaluate

Spec == Init /\ [][Next]_vars

\* the rules engine on its own
InitRules ==
    /\ loan_data \in RulesLoanData
    /\ pricing_input = NoPricingInput
    /\ NoDscrInput
    /\ NoResults
    /\ NoCalls

NextRules == RulesEvaluate

SpecRules == InitRules /\ [][NextRules]_vars

\* the pricing engine on its own
InitPricing ==
    /\ loan_data = BlankLoanData
    /\ pricing_input \in PricingInputs
    /\ NoDscrInput
    /\ NoResults
    /\ NoCalls

NextPricing == PricingCalculate

SpecPricing == InitPricing /\ [][NextPricing]_vars

\* dscr_calculator.calculate(dscr_input)
DscrCalculate ==
    /\ pc = "start"
    /\ IF DebtServiceRaises(dscr_input)
       THEN dscr_result' = DscrRaised /\ pc' = "raised"
       ELSE dscr_result' = Calculate(dscr_input) /\ pc' = "calculated"
    /\ UNCHANGED <<pipelineVars, dscr_input, rent_target, required_rent, scenarios,
                   max_loan, callVars, workflowVars>>

\* dscr_calculator.calculate_required_rent(dscr_input, target_dscr = rent_target)
RequiredRent ==
    /\ pc = "start"
    /\ IF DebtServiceRaises(dscr_input)
       THEN required_rent' = required_rent /\ pc' = "raised"
       ELSE required_rent' = CalculateRequiredRent(dscr_input, rent_target)
            /\ pc' = "required"
    /\ UNCHANGED <<pipelineVars, dscr_input, rent_target, dscr_result, scenarios,
                   max_loan, callVars, workflowVars>>

\* the round trip: calculate on the input with gross_monthly_rent replaced by the
\* required rent, every other field unchanged
RoundTrip ==
    /\ pc = "required"
    /\ dscr_result' = Calculate([dscr_input EXCEPT !.gross_monthly_rent = <<required_rent>>])
    /\ pc' = "recalculated"
    /\ UNCHANGED <<pipelineVars, dscr_input, rent_target, required_rent, scenarios,
                   max_loan, callVars, workflowVars>>

\* dscr_calculator.calculate_scenarios(dscr_input); rounds is the way the payment of
\* the Rate +1% copy rounds
ScenariosCalculate ==
    /\ pc = "start"
    /\ IF ScenariosRaise(dscr_input)
       THEN scenarios' = scenarios /\ pc' = "raised"
       ELSE /\ \E rounds \in PiRoundings(<<dscr_input.loan_amount,
                                          RateIncrease(dscr_input.interest_rate),
                                          dscr_input.term_months,
                                          dscr_input.interest_only_months>>) :
                   scenarios' = CalculateScenarios(dscr_input, rounds)
            /\ pc' = "scenarios"
    /\ UNCHANGED <<pipelineVars, dscr_input, rent_target, required_rent, dscr_result,
                   max_loan, callVars, workflowVars>>

\* dscr_calculator.calculate_max_loan_amount(dscr_input, target_dscr = rent_target)
MaxLoanAmount ==
    /\ pc = "start"
    /\ max_loan' = CalculateMaxLoanAmount(dscr_input, rent_target)
    /\ pc' = "max_loan"
    /\ UNCHANGED <<pipelineVars, dscr_input, rent_target, required_rent, dscr_result,
                   scenarios, callVars, workflowVars>>

\* the DSCR calculator on its own
InitDscr ==
    /\ loan_data = BlankLoanData
    /\ pricing_input = NoPricingInput
    /\ dscr_input \in DscrInputs
    /\ rent_target \in TargetDscrs
    /\ NoResults
    /\ NoCalls

NextDscr == DscrCalculate \/ RequiredRent \/ RoundTrip

SpecDscr == InitDscr /\ [][NextDscr]_vars

\* the stress scenarios and the maximum loan amount of the DSCR calculator
InitStress ==
    /\ loan_data = BlankLoanData
    /\ pricing_input = NoPricingInput
    /\ dscr_input \in StressInputs
    /\ rent_target \in { << >>, <<125>> }
    /\ NoResults
    /\ NoCalls

NextStress == DscrCalculate \/ ScenariosCalculate \/ MaxLoanAmount

SpecStress == InitStress /\ [][NextStress]_vars

NoResult == [none |-> TRUE]

\* a call of the given kind ("decide", "rules", "pricing", "dscr") on its arguments,
\* before its first step; results, rules_result and pricing_result are its locals
CallOf(kind, d, p, i) ==
    [kind |-> kind, loan_data |-> d, pricing_input |-> p, dscr_input |-> i,
     pc |-> "start", results |-> << >>, rules_result |-> NoRulesResult,
     pricing_result |-> NoPricingResult, result |-> NoResult, overlapped |-> FALSE]

\* the calls the callers make
CallArguments ==
    { CallOf("decide", BlankLoanData, PricingOf(BlankLoanData, FALSE), BlankDscrInput),
      CallOf("decide", ReferredLoanData, NoPricingInput, BlankDscrInput),
      CallOf("rules", ReferredLoanData, NoPricingInput, BlankDscrInput),
      CallOf("pricing", BlankLoanData, PricingOf(BlankLoanData, FALSE), BlankDscrInput),
      CallOf("pricing", BlankLoanData, IneligiblePricingInput, BlankDscrInput),
      CallOf("dscr", BlankLoanData, NoPricingInput, ScenarioInput),
      CallOf("dscr", BlankLoanData, NoPricingInput, BlankDscrInput),
      CallOf("dscr", BlankLoanData, NoPricingInput, ZeroTermInput) }

\* largest reading of the clock
MaxClock == 1

\* a call that has taken a step and not returned
InFlight(c) == calls[c].pc \notin {"start", "done"}

\* the calls after a step of caller c that leaves its call as given; overlapped records
\* that the step was taken while another call was in flight
After(c, call) ==
    [calls EXCEPT ![c] = [call EXCEPT !.overlapped =
                              @ \/ \E o \in Callers \ {c} : InFlight(o)]]

\* the rule the loop of evaluate always takes first
LoopRuleRestarted(rules, results) == rules[1]

\* RulesEngine.evaluate: the rule the loop "for rule in self.rules" is at
LoopRule(rules, results) == rules[Len(results) + 1]

\* RulesEngine.evaluate, one turn of the loop over self.rules
CallRuleStep ==
    \E c \in Callers :
        LET call == calls[c]
        IN /\ call.kind \in {"rules", "decide"}
           /\ call.pc \in {"start", "loop"}
           /\ Len(call.results) < Len(engine_rules)
           /\ calls' = After(c, [call EXCEPT
                  !.results = Append(call.results,
                                     EvaluateRule(LoopRule(engine_rules, call.results),
                                                  call.loan_data)),
                  !.pc = "loop"])
           /\ UNCHANGED <<engine_rules, pricing_tables, uuids_issued, now>>
           /\ UNCHANGED <<pipelineVars, dscrVars, pc, workflowVars>>

\* the RulesEvaluationResult with its id and evaluated_at
StampRules(rules, id, at) == [id |-> id, evaluated_at |-> at] @@ rules

\* RulesEngine.evaluate after the loop: the result is built and returned, to the caller
\* or into the local rules_result of DecisionService.evaluate
CallRulesReturn ==
    \E c \in Callers :
        LET call == calls[c]
            rules == StampRules(Categorize(call.loan_data.application_id, call.results),
                                uuids_issued + 1, now)
        IN /\ call.kind \in {"rules", "decide"}
           /\ call.pc = "loop"
           /\ Len(call.results) = Len(engine_rules)
           /\ calls' = After(c, [call EXCEPT
                  !.rules_result = rules,
                  !.result = IF call.kind = "rules" THEN rules ELSE @,
                  !.pc = IF call.kind = "rules" THEN "done" ELSE "rules_done"])
           /\ uuids_issued' = uuids_issued + 1
           /\ UNCHANGED <<engine_rules, pricing_tables, now>>
           /\ UNCHANGED <<pipelineVars, dscrVars, pc, workflowVars>>

\* pricing_engine.calculate_pricing(pricing_input)
CallPricing ==
    \E c \in Callers :
        LET call == calls[c]
        IN /\ call.kind = "pricing"
           /\ call.pc = "start"
           /\ calls' = After(c, [call EXCEPT
                  !.pricing_result = CalculatePricing(call.pricing_input),
                  !.result = CalculatePricing(call.pricing_input),
                  !.pc = "done"])
           /\ UNCHANGED <<engine_rules, pricing_tables, uuids_issued, now>>
           /\ UNCHANGED <<pipelineVars, dscrVars, pc, workflowVars>>

\* DecisionService.evaluate, step 2
CallDecidePricing ==
    \E c \in Callers :
        LET call == calls[c]
        IN /\ call.kind = "decide"
           /\ call.pc = "rules_done"
           /\ calls' = After(c, [call EXCEPT
                  !.pricing_result = PricingStep(call.pricing_input),
                  !.pc = "priced"])
           /\ UNCHANGED <<engine_rules, pricing_tables, uuids_issued, now>>
           /\ UNCHANGED <<pipelineVars, dscrVars, pc, workflowVars>>

\* a DecisionResult whose notes record when it was decided
StampDecisionTimeInNotes(decision, rules_id, first, at) ==
    [id |-> first + Len(decision.conditions), decided_at |-> at]
    @@ [decision EXCEPT
            !.conditions = [k \in 1..Len(decision.conditions) |->
                               [id |-> first + k - 1] @@ decision.conditions[k]],
            !.details = [rules_evaluation_id |-> rules_id] @@ decision.details,
            !.notes = Append(decision.notes, <<"Decided at", at>>)]

\* the DecisionResult with the ids of its conditions (uuid4 values first,
\* first + 1, ...), its own id, decided_at and details.rules_evaluation_id
StampDecision(decision, rules_id, first, at) ==
    [id |-> first + Len(decision.conditions), decided_at |-> at]
    @@ [decision EXCEPT
            !.conditions = [k \in 1..Len(decision.conditions) |->
                               [id |-> first + k - 1] @@ decision.conditions[k]],
            !.details = [rules_evaluation_id |-> rules_id] @@ decision.details]

\* DecisionService.evaluate, steps 3 to 5 and the return
CallDecide ==
    \E c \in Callers :
        LET call == calls[c]
            decision == BuildDecisionResult(call.loan_data, call.rules_result,
                                            call.pricing_result)
        IN /\ call.kind = "decide"
           /\ call.pc = "priced"
           /\ calls' = After(c, [call EXCEPT
                  !.result = StampDecision(decision, call.rules_result.id,
                                           uuids_issued + 1, now),
                  !.pc = "done"])
           /\ uuids_issued' = uuids_issued + Len(decision.conditions) + 1
           /\ UNCHANGED <<engine_rules, pricing_tables, now>>
           /\ UNCHANGED <<pipelineVars, dscrVars, pc, workflowVars>>

\* the DSCRCalculationResult with its id and calculated_at
StampDscr(result, id, at) == [id |-> id, calculated_at |-> at] @@ result

\* dscr_calculator.calculate(dscr_input)
CallDscr ==
    \E c \in Callers :
        LET call == calls[c]
        IN /\ call.kind = "dscr"
           /\ call.pc = "start"
           /\ IF DebtServiceRaises(call.dscr_input)
              THEN /\ calls' = After(c, [call EXCEPT !.result = DscrRaised, !.pc = "done"])
                   /\ uuids_issued' = uuids_issued
              ELSE /\ calls' = After(c, [call EXCEPT
                          !.result = StampDscr(Calculate(call.dscr_input),
                                               uuids_issued + 1, now),
                          !.pc = "done"])
                   /\ uuids_issued' = uuids_issued + 1
           /\ UNCHANGED <<engine_rules, pricing_tables, now>>
           /\ UNCHANGED <<pipelineVars, dscrVars, pc, workflowVars>>

\* the wall clock advances
Tick ==
    /\ now < MaxClock
    /\ now' = now + 1
    /\ UNCHANGED <<engine_rules, pricing_tables, uuids_issued, calls>>
    /\ UNCHANGED <<pipelineVars, dscrVars, pc, workflowVars>>

\* no call through the single-call variables
NoSingleCall ==
    /\ loan_data = BlankLoanData
    /\ pricing_input = NoPricingInput
    /\ NoDscrInput
    /\ NoResults

\* two callers on the shared engines
InitCalls ==
    /\ NoSingleCall
    /\ EnginesConstructed
    /\ calls \in [Callers -> CallArguments]

NextCalls ==
    \/ CallRuleStep \/ CallRulesReturn \/ CallPricing \/ CallDecidePricing
    \/ CallDecide \/ CallDscr \/ Tick

SpecCalls == InitCalls /\ [][NextCalls]_vars

\* two calls of calculate on inputs that differ only in interest_rate
InitRates ==
    /\ NoSingleCall
    /\ EnginesConstructed
    /\ \E i \in RateInputs, j \in RateInputs :
          /\ SameButRate(i, j)
          /\ calls = [c \in Callers |->
                         CallOf("dscr", BlankLoanData, NoPricingInput,
                                IF c = "c1" THEN i ELSE j)]

NextRates == CallDscr

SpecRates == InitRates /\ [][NextRates]_vars

\* the number of transitions recorded over all applications
RECURSIVE Recorded(_, _)
Recorded(store, apps) ==
    IF apps = {} THEN 0
    ELSE LET a == CHOOSE x \in apps : TRUE
         IN Len(store[a]) + Recorded(store, apps \ {a})

\* workflow_engine.transition(application_id, from_milestone, to_milestone, "user-1")
WorkflowTransition ==
    \E application_id \in Applications, to_milestone \in CallMilestones,
       from_milestone \in { << >> } \cup { <<m>> : m \in CallMilestones } :
        IF TransitionRaises(from_milestone, to_milestone)
        THEN /\ pc' = "ValueError"
             /\ UNCHANGED <<pipelineVars, dscrVars, callVars, workflowVars>>
        ELSE /\ Recorded(transitions, Applications) < MaxTransitions
             /\ transitions' =
                    [transitions EXCEPT ![application_id] =
                        Append(@, MilestoneTransitionOf(uuids_issued + 1, application_id,
                                                        from_milestone, to_milestone, now,
                                                        "user-1"))]
             /\ LET generated == GenerateMilestoneTasks(application_id, to_milestone,
                                                        uuids_issued + 1, now)
                IN /\ tasks' = [tasks EXCEPT ![application_id] = @ \o generated]
                   /\ uuids_issued' = uuids_issued + 1 + Len(generated)
             /\ pc' = "transitioned"
             /\ UNCHANGED <<pipelineVars, dscrVars, engine_rules, pricing_tables, now, calls>>

\* the workflow engine on its own
InitWorkflow ==
    /\ NoSingleCall
    /\ NoCalls

NextWorkflow == WorkflowTransition

SpecWorkflow == InitWorkflow /\ [][NextWorkflow]_vars

-----------------------------------------------------------------------------
(* Properties of the decision service (specification Spec)                 *)

\* the statuses of the rule results of a RulesEvaluationResult
HasFailed(rules, severity) ==
    \E k \in 1..Len(rules.rule_results) :
        rules.rule_results[k].status = "FAIL" /\ rules.rule_results[k].severity = severity

Priced == pricing_result # NoPricingResult

DecisionPair == <<decision_result.decision_type, decision_result.decision_reason>>

\* C1: decision_service.evaluate resolves the decision by first match: a failed
\* HARD_STOP rule gives DECLINED/HARD_STOP_VIOLATION; else a computed, ineligible pricing
\* gives DECLINED/PRICING_INELIGIBLE; else a failed EXCEPTION_REQUIRED rule gives
\* REFERRED/EXCEPTION_REQUIRED; else a computed pricing of tier HIGH_RISK gives
\* REFERRED/HIGH_RISK; else CONDITIONALLY_APPROVED/MEETS_GUIDELINES.  Pricing is
\* computed exactly when a pricing input is supplied.
C1_DecisionOrder ==
    pc = "decided" =>
        /\ Priced <=> pricing_input # NoPricingInput
        /\ DecisionPair =
              IF HasFailed(rules_result, "HARD_STOP")
              THEN <<"DECLINED", "HARD_STOP_VIOLATION">>
              ELSE IF Priced /\ ~pricing_result.eligible
              THEN <<"DECLINED", "PRICING_INELIGIBLE">>
              ELSE IF HasFailed(rules_result, "EXCEPTION_REQUIRED")
              THEN <<"REFERRED", "EXCEPTION_REQUIRED">>
              ELSE IF Priced /\ pricing_result.risk_tier = "HIGH_RISK"
              THEN <<"REFERRED", "HIGH_RISK">>
              ELSE <<"CONDITIONALLY_APPROVED", "MEETS_GUIDELINES">>

\* C1 witness: an ineligible pricing declines a loan that also needs an exception
C1_Witness ==
    /\ pc = "decided"
    /\ DecisionPair = <<"DECLINED", "PRICING_INELIGIBLE">>
    /\ HasFailed(rules_result, "EXCEPTION_REQUIRED")

HasHardStop(rules, id) ==
    \E k \in 1..Len(rules.hard_stops) : rules.hard_stops[k].rule_id = id

\* C2: a credit score below 660 puts CREDIT-001 in hard_stops with overall_status FAIL
\* and the decision is DECLINED/HARD_STOP_VIOLATION, whatever the other facts and
\* whatever the pricing input (absent, eligible or ineligible).
C2_LowCreditDeclined ==
    (pc = "decided" /\ "credit_score" \notin loan_data.absent /\ loan_data.credit_score < 660)
        => /\ HasHardStop(rules_result, "CREDIT-001")
           /\ rules_result.overall_status = "FAIL"
           /\ DecisionPair = <<"DECLINED", "HARD_STOP_VIOLATION">>

\* C2 witness: credit score 659, every other rule passing, an eligible pricing supplied
C2_Witness ==
    /\ pc = "decided"
    /\ "credit_score" \notin loan_data.absent /\ loan_data.credit_score < 660
    /\ Len(rules_result.hard_stops) = 1
    /\ Priced /\ pricing_result.eligible

\* no HARD_STOP or EXCEPTION_REQUIRED rule other than DSCR-002 has status FAIL
OnlyDscr002MayFail(rules) ==
    \A k \in 1..Len(rules.rule_results) :
        LET r == rules.rule_results[k]
        IN (r.rule_id # "DSCR-002" /\ r.severity \in {"HARD_STOP", "EXCEPTION_REQUIRED"})
               => r.status # "FAIL"

\* the pricing input is omitted or carries the dscr, ltv and credit score of the LoanData
PricingOmittedOrSame ==
    \/ pricing_input = NoPricingInput
    \/ /\ loan_data.absent \cap {"dscr", "ltv", "credit_score"} = {}
       /\ pricing_input.dscr = loan_data.dscr
       /\ pricing_input.ltv = loan_data.ltv
       /\ pricing_input.credit_score = loan_data.credit_score

\* C3: with 0.75 <= dscr < 1.0 and no other HARD_STOP or EXCEPTION_REQUIRED rule
\* failing, there is no hard stop, DSCR-002 is the one exception-required failure, and
\* the decision (pricing omitted or on the same facts) is REFERRED/EXCEPTION_REQUIRED.
C3_LowDscrReferred ==
    (/\ pc = "decided"
     /\ "dscr" \notin loan_data.absent /\ loan_data.dscr >= 75 /\ loan_data.dscr < 100
     /\ OnlyDscr002MayFail(rules_result)
     /\ PricingOmittedOrSame)
        => /\ rules_result.hard_stops = << >>
           /\ Len(rules_result.exceptions_required) = 1
           /\ rules_result.exceptions_required[1].rule_id = "DSCR-002"
           /\ DecisionPair = <<"REFERRED", "EXCEPTION_REQUIRED">>

\* C3 witness: such a loan evaluated with a pricing input on the same facts
C3_Witness ==
    /\ pc = "decided"
    /\ "dscr" \notin loan_data.absent /\ loan_data.dscr >= 75 /\ loan_data.dscr < 100
    /\ OnlyDscr002MayFail(rules_result)
    /\ pricing_input # NoPricingInput /\ PricingOmittedOrSame

\* the conditions with the given category, description and required flag
Matching(conditions, category, description, required) ==
    {k \in 1..Len(conditions) :
        conditions[k] = [category |-> category, description |-> description,
                         required |-> required, source |-> "AUTOMATED"]}

\* the seven baseline conditions: <<category, description>>
BaselineConditions ==
    { <<"PTD", <<"Verify borrower identity">> >>,
      <<"PTD", <<"Obtain credit report">> >>,
      <<"PTD", <<"Verify property ownership/purchase contract">> >>,
      <<"PTD", <<"Obtain rent schedule or lease agreements">> >>,
      <<"PTC", <<"Obtain satisfactory appraisal">> >>,
      <<"PTF", <<"Clear title with no liens">> >>,
      <<"PTF", <<"Proof of hazard insurance">> >> }

\* the rule results with status WARNING, by position
WarningPositions(rules) ==
    {k \in 1..Len(rules.rule_results) : rules.rule_results[k].status = "WARNING"}

\* C16: whatever the decision type, the conditions are the seven required baseline
\* conditions, one required rent-roll PTD condition exactly when units > 1, and one
\* non-required condition per rule result of status WARNING whose description holds
\* that rule's message: 7 + (1 if units > 1) + (number of rule warnings) entries.
C16_Conditions ==
    pc = "decided" =>
        LET c == decision_result.conditions
            w == WarningPositions(rules_result)
        IN /\ Cardinality(BaselineConditions) = 7
           /\ \A b \in BaselineConditions : Cardinality(Matching(c, b[1], b[2], TRUE)) = 1
           /\ Cardinality(Matching(c, "PTD", <<"Obtain rent roll for all units">>, TRUE))
                  = IF loan_data.units > 1 THEN 1 ELSE 0
           /\ Cardinality({k \in 1..Len(c) : ~c[k].required}) = Cardinality(w)
           /\ \A k \in w :
                  Cardinality(Matching(c, "PTD",
                      <<"Address">> \o rules_result.rule_results[k].message, FALSE)) = 1
           /\ Len(c) = 7 + (IF loan_data.units > 1 THEN 1 ELSE 0) + Cardinality(w)

\* C16 witness: a declined loan on two units with two rule warnings has ten conditions
C16_Witness ==
    /\ pc = "decided"
    /\ decision_result.decision_type = "DECLINED"
    /\ loan_data.units > 1
    /\ Cardinality(WarningPositions(rules_result)) = 2
    /\ Len(decision_result.conditions) = 10

\* the pricing input carries the dscr, ltv and credit score of the LoanData
PricingSame ==
    /\ pricing_input # NoPricingInput
    /\ loan_data.absent \cap {"dscr", "ltv", "credit_score"} = {}
    /\ pricing_input.dscr = loan_data.dscr
    /\ pricing_input.ltv = loan_data.ltv
    /\ pricing_input.credit_score = loan_data.credit_score

\* C19: with a pricing input on the dscr, ltv and credit score of the LoanData, each
\* pricing ineligibility condition (credit < 660, ltv > 80, dscr < 0.75) fails a
\* HARD_STOP rule (CREDIT-001, LTV-001, DSCR-001), and the decision is never
\* DECLINED/PRICING_INELIGIBLE.
C19_PricingIneligibleUnreachable ==
    (pc = "decided" /\ PricingSame) =>
        /\ DecisionPair # <<"DECLINED", "PRICING_INELIGIBLE">>
        /\ pricing_input.credit_score < 660 => HasHardStop(rules_result, "CREDIT-001")
        /\ pricing_input.ltv > 80 => HasHardStop(rules_result, "LTV-001")
        /\ pricing_input.dscr < 75 => HasHardStop(rules_result, "DSCR-001")
        /\ ~pricing_result.eligible => DecisionPair = <<"DECLINED", "HARD_STOP_VIOLATION">>

\* C19 witness: an ineligible pricing on the facts of the LoanData, with the one hard
\* stop that the same fact causes
C19_Witness ==
    /\ pc = "decided" /\ PricingSame
    /\ ~pricing_result.eligible
    /\ Len(rules_result.hard_stops) = 1
    /\ DecisionPair = <<"DECLINED", "HARD_STOP_VIOLATION">>

\* C20: with a pricing input on the dscr, ltv and credit score of the LoanData, the
\* decision is never REFERRED/HIGH_RISK: with no HARD_STOP and no EXCEPTION_REQUIRED
\* rule failing, dscr >= 1.0 and ltv <= 80 give a risk score of at least 2 and a tier
\* of MARGINAL or better.
C20_HighRiskUnreachable ==
    (pc = "decided" /\ PricingSame) =>
        /\ DecisionPair # <<"REFERRED", "HIGH_RISK">>
        /\ (~HasFailed(rules_result, "HARD_STOP")
               /\ ~HasFailed(rules_result, "EXCEPTION_REQUIRED"))
              => /\ pricing_input.dscr >= 100 /\ pricing_input.ltv <= 80
                 /\ RiskScore(pricing_input) >= 2
                 /\ pricing_result.risk_tier # "HIGH_RISK"

\* C20 witness: the lowest score a clean loan can have (dscr 1.00, ltv 80, credit 660)
\* is priced MARGINAL and conditionally approved
C20_Witness ==
    /\ pc = "decided" /\ PricingSame
    /\ rules_result.hard_stops = << >> /\ rules_result.exceptions_required = << >>
    /\ pricing_input.dscr = 100 /\ pricing_input.ltv = 80
    /\ pricing_input.credit_score = 660
    /\ pricing_result.risk_tier = "MARGINAL"
    /\ DecisionPair = <<"CONDITIONALLY_APPROVED", "MEETS_GUIDELINES">>

-----------------------------------------------------------------------------
(* Properties of the rules engine (specification SpecRules)                *)

\* the positions of rule_results with the given property, as a set
Positions(rules, Test(_)) == {k \in 1..Len(rules.rule_results) : Test(rules.rule_results[k])}

\* list is the subsequence of rule_results at the positions in want
IsSubsequenceAt(rules, list, want) ==
    /\ Len(list) = Cardinality(want)
    /\ \A k \in want : \E j \in 1..Len(list) : list[j] = rules.rule_results[k]
    /\ \A j \in 1..Len(list) : \E k \in want : list[j] = rules.rule_results[k]

\* C4: hard_stops holds exactly the results with status FAIL and severity HARD_STOP,
\* exceptions_required exactly those with status FAIL and severity EXCEPTION_REQUIRED,
\* warnings exactly those with status WARNING; overall_status is FAIL with a hard stop,
\* else WARNING with an exception-required failure, else PASS, so that rule warnings
\* alone leave it PASS.
C4_Partition ==
    pc = "rules" =>
        LET hs == Positions(rules_result,
                      LAMBDA r : r.status = "FAIL" /\ r.severity = "HARD_STOP")
            er == Positions(rules_result,
                      LAMBDA r : r.status = "FAIL" /\ r.severity = "EXCEPTION_REQUIRED")
            wa == Positions(rules_result, LAMBDA r : r.status = "WARNING")
        IN /\ IsSubsequenceAt(rules_result, rules_result.hard_stops, hs)
           /\ IsSubsequenceAt(rules_result, rules_result.exceptions_required, er)
           /\ IsSubsequenceAt(rules_result, rules_result.warnings, wa)
           /\ rules_result.overall_status =
                 IF hs # {} THEN "FAIL" ELSE IF er # {} THEN "WARNING" ELSE "PASS"

\* C4 witness: rule warnings and nothing else, overall_status PASS
C4_Witness ==
    /\ pc = "rules"
    /\ Len(rules_result.warnings) = 2
    /\ rules_result.hard_stops = << >> /\ rules_result.exceptions_required = << >>
    /\ rules_result.overall_status = "PASS"

\* the rule's check or its message formatter raises on the LoanData
Raises(id, d) ==
    \/ id \in OrderingRules /\ RuleFact(id) \in d.absent
    \/ id \in FloatFormatRules /\ RuleFact(id) \in d.unformattable

InList(list, id) == \E j \in 1..Len(list) : list[j].rule_id = id

\* C5: when a rule's check or message formatter raises, evaluate still returns one
\* result per rule in table order, the rule has status NOT_APPLICABLE, appears in none
\* of hard_stops, exceptions_required and warnings, and overall_status is decided by
\* the rules that did not raise.
C5_RaisingRuleNotApplicable ==
    pc = "rules" =>
        /\ Len(rules_result.rule_results) = Len(Rules)
        /\ \A k \in 1..Len(Rules) :
              /\ rules_result.rule_results[k].rule_id = Rules[k].id
              /\ Raises(Rules[k].id, loan_data) =>
                    /\ rules_result.rule_results[k].status = "NOT_APPLICABLE"
                    /\ ~InList(rules_result.hard_stops, Rules[k].id)
                    /\ ~InList(rules_result.exceptions_required, Rules[k].id)
                    /\ ~InList(rules_result.warnings, Rules[k].id)
        /\ LET failing(severity) ==
                   \E k \in 1..Len(Rules) :
                       /\ Rules[k].severity = severity
                       /\ ~Raises(Rules[k].id, loan_data)
                       /\ rules_result.rule_results[k].status = "FAIL"
           IN rules_result.overall_status =
                 IF failing("HARD_STOP") THEN "FAIL"
                 ELSE IF failing("EXCEPTION_REQUIRED") THEN "WARNING" ELSE "PASS"

\* C5 witness: only the message formatter of the DSCR rules raises (the check of
\* DSCR-001 would fail), and overall_status is PASS
C5_Witness ==
    /\ pc = "rules"
    /\ "dscr" \in loan_data.unformattable /\ loan_data.dscr < 75
    /\ rules_result.rule_results[1].status = "NOT_APPLICABLE"
    /\ rules_result.overall_status = "PASS"

\* the status of the result of the rule with the given id
StatusOf(rules, id) ==
    LET k == CHOOSE k \in 1..Len(rules.rule_results) : rules.rule_results[k].rule_id = id
    IN rules.rule_results[k].status

SeverityOf(rules, id) ==
    LET k == CHOOSE k \in 1..Len(rules.rule_results) : rules.rule_results[k].rule_id = id
    IN rules.rule_results[k].severity

\* the rule passes when holds, and otherwise fails with the severity: status WARNING
\* for a WARNING rule, FAIL for every other rule
Verdict(rules, id, severity, holds) ==
    /\ SeverityOf(rules, id) = severity
    /\ StatusOf(rules, id) =
          IF holds THEN "PASS" ELSE IF severity = "WARNING" THEN "WARNING" ELSE "FAIL"

\* C6: on a LoanData whose facts are numbers, each rule passes exactly when its
\* threshold holds and otherwise fails with its listed severity.
C6_Thresholds ==
    (pc = "rules" /\ loan_data.absent = {} /\ loan_data.unformattable = {}) =>
        LET d == loan_data
            r == rules_result
        IN /\ Verdict(r, "DSCR-001", "HARD_STOP", d.dscr >= 75)
           /\ Verdict(r, "DSCR-002", "EXCEPTION_REQUIRED", d.dscr >= 100)
           /\ Verdict(r, "LTV-001", "HARD_STOP", d.ltv <= 80)
           /\ Verdict(r, "LTV-002", "WARNING", d.ltv <= 75)
           /\ Verdict(r, "CREDIT-001", "HARD_STOP", d.credit_score >= 660)
           /\ Verdict(r, "CREDIT-002", "WARNING", d.credit_score >= 700)
           /\ Verdict(r, "CREDIT-003", "HARD_STOP", d.prior_bankruptcies = 0)
           /\ Verdict(r, "CREDIT-004", "HARD_STOP", d.prior_foreclosures = 0)
           /\ Verdict(r, "PROP-001", "HARD_STOP",
                      d.property_type \in {"SFR", "CONDO", "TOWNHOUSE", "DUPLEX",
                                           "TRIPLEX", "FOURPLEX", "MULTIFAMILY_5PLUS"})
           /\ Verdict(r, "PROP-002", "EXCEPTION_REQUIRED", ~d.is_rural)
           /\ Verdict(r, "LOAN-001", "HARD_STOP", d.loan_amount >= 10000000)
           /\ Verdict(r, "LOAN-002", "HARD_STOP", d.loan_amount <= 300000000)
           /\ Verdict(r, "RESERVE-001", "EXCEPTION_REQUIRED", d.months_reserves >= 6)

\* C6 witness: facts on the passing side of LTV-001 and CREDIT-001 and on the failing
\* side of LTV-002, CREDIT-002, LOAN-002 and RESERVE-001
C6_Witness ==
    /\ pc = "rules" /\ loan_data.absent = {} /\ loan_data.unformattable = {}
    /\ loan_data.ltv = 80 /\ loan_data.credit_score = 660
    /\ loan_data.loan_amount = 300000001 /\ loan_data.months_reserves = 5
    /\ StatusOf(rules_result, "LTV-001") = "PASS"
    /\ StatusOf(rules_result, "LTV-002") = "WARNING"
    /\ StatusOf(rules_result, "LOAN-002") = "FAIL"

-----------------------------------------------------------------------------
(* Properties of the pricing engine (specification SpecPricing)            *)

\* the number of violated minimum requirements
ViolatedMinimums(p) ==
    (IF p.credit_score < 660 THEN 1 ELSE 0) + (IF p.ltv > 80 THEN 1 ELSE 0)
    + (IF p.dscr < 75 THEN 1 ELSE 0)

HasReason(result, reason) ==
    \E k \in 1..Len(result.ineligibility_reasons) : result.ineligibility_reasons[k] = reason

RECURSIVE SumOfBps(_, _)
SumOfBps(adjustments, k) ==
    IF k = 0 THEN 0 ELSE adjustments[k].adjustment_bps + SumOfBps(adjustments, k - 1)

\* C7: eligible holds exactly when credit_score >= 660, ltv <= 80 and dscr >= 0.75;
\* there is one ineligibility reason per violated condition; an ineligible input still
\* gets its risk tier, the base rate of that tier and a final rate of base rate plus
\* the recorded adjustments.
C7_EligibilityGate ==
    pc = "priced" =>
        LET p == pricing_input
            r == pricing_result
        IN /\ r.eligible <=> (p.credit_score >= 660 /\ p.ltv <= 80 /\ p.dscr >= 75)
           /\ Len(r.ineligibility_reasons) = ViolatedMinimums(p)
           /\ HasReason(r, "Credit score below minimum") <=> p.credit_score < 660
           /\ HasReason(r, "LTV exceeds maximum") <=> p.ltv > 80
           /\ HasReason(r, "DSCR below minimum") <=> p.dscr < 75
           /\ r.risk_tier \in {"EXCELLENT", "GOOD", "ACCEPTABLE", "MARGINAL", "HIGH_RISK"}
           /\ r.risk_tier = "HIGH_RISK" <=> RiskScore(p) < 2
           /\ r.base_rate = BaseRate(r.risk_tier)
           /\ r.total_adjustment_bps = SumOfBps(r.adjustments, Len(r.adjustments))
           /\ r.final_rate = r.base_rate + 10 * r.total_adjustment_bps

\* C7 witness: all three minimums violated, a rate is still computed
C7_Witness ==
    /\ pc = "priced"
    /\ ~pricing_result.eligible
    /\ Len(pricing_result.ineligibility_reasons) = 3
    /\ pricing_result.risk_tier = "HIGH_RISK"
    /\ pricing_result.final_rate > pricing_result.base_rate

HasAdjustment(result, factor, bps) ==
    \E k \in 1..Len(result.adjustments) :
        result.adjustments[k].factor = factor /\ result.adjustments[k].adjustment_bps = bps

\* C8: for every DSCR the calculator can produce (negative, zero, positive, +infinity),
\* calculate_pricing records a DSCR adjustment of +125 bps when dscr < 1.00 and of
\* -25 bps when dscr >= 1.50.
C8_DscrAdjustmentBands ==
    pc = "priced" =>
        /\ pricing_input.dscr < 100 => HasAdjustment(pricing_result, "DSCR", 125)
        /\ pricing_input.dscr >= 150 => HasAdjustment(pricing_result, "DSCR", -25)

\* C9: dscr >= 1.50, ltv <= 65 and credit_score >= 760 give risk tier EXCELLENT and
\* the base rate 6.50, whatever the property type, loan amount and cash-out flag.
C9_ExcellentTier ==
    (/\ pc = "priced"
     /\ pricing_input.dscr >= 150 /\ pricing_input.ltv <= 65
     /\ pricing_input.credit_score >= 760)
        => /\ pricing_result.risk_tier = "EXCELLENT"
           /\ pricing_result.base_rate = 6500

\* C9 witness: an infinite DSCR on a cash-out loan of a property type outside the table
C9_Witness ==
    /\ pc = "priced"
    /\ pricing_input.dscr = inf /\ pricing_input.ltv = 65
    /\ pricing_input.credit_score = 760
    /\ pricing_input.property_type = "MOBILE_HOME" /\ pricing_input.is_cash_out
    /\ pricing_result.risk_tier = "EXCELLENT"

-----------------------------------------------------------------------------
(* Properties of the DSCR calculator (specification SpecDscr)              *)

\* C10: with gross_monthly_rent replaced by calculate_required_rent(input, target) and
\* every other field unchanged, calculate gives dscr_ratio >= target, up to the cents
\* lost by truncation (one cent for each of the four truncations on the way).
C10_RequiredRentRoundTrip ==
    pc = "recalculated" =>
        LET target == IF rent_target \in {<< >>, <<0>>} THEN 100 ELSE rent_target[1]
        IN \/ dscr_result.dscr_ratio.inf
           \/ (dscr_result.noi.monthly + 4) * 100
                  >= target * dscr_result.debt_service.total_pitia

\* C11: dscr_calculator.calculate returns a result for every DSCRCalculationInput,
\* a term of zero months, a zero rate, a zero loan amount and missing rent data
\* included; it never raises.
C11_CalculateNeverRaises ==
    pc \in {"calculated", "raised"} => dscr_result # DscrRaised

\* C12: whenever the total PITIA computed for the input is zero, calculate returns
\* with dscr_ratio = +infinity, whatever the sign of the NOI.
C12_ZeroPitiaInfinite ==
    (pc \in {"calculated", "recalculated"} /\ dscr_result.debt_service.total_pitia = 0)
        => /\ dscr_result # DscrRaised
           /\ dscr_result.dscr_ratio.inf

\* C12 witness: a zero PITIA under a negative NOI
C12_Witness ==
    /\ pc = "calculated"
    /\ dscr_result.debt_service.total_pitia = 0
    /\ dscr_result.noi.monthly < 0
    /\ dscr_result.dscr_ratio.inf

\* C13: in every result of calculate, meets_minimum holds exactly when
\* dscr_ratio >= 1.0: it holds for an infinite ratio and fails for a negative one.
C13_MeetsMinimum ==
    pc \in {"calculated", "recalculated"} =>
        LET r == dscr_result.dscr_ratio
        IN /\ dscr_result.meets_minimum <=> (r.inf \/ r.num >= r.den)
           /\ r.inf => dscr_result.meets_minimum
           /\ (~r.inf /\ r.num < 0) => ~dscr_result.meets_minimum
           /\ ~r.inf => /\ r.num = dscr_result.noi.monthly
                        /\ r.den = dscr_result.debt_service.total_pitia
                        /\ r.den > 0

\* C13 witness: an infinite ratio meets the minimum
C13_Witness ==
    /\ pc = "calculated"
    /\ dscr_result.dscr_ratio.inf
    /\ dscr_result.noi.monthly <= 0
    /\ dscr_result.meets_minimum


\* principal and interest of about $3,069
ScenarioPayment ==
    /\ dscr_result.debt_service.principal_and_interest >= 306900
    /\ dscr_result.debt_service.principal_and_interest <= 306999

\* C17: on the scenario input calculate yields a monthly principal and interest between
\* 306,900 and 306,999 cents (306,979) and a dscr_ratio of about 0.60: an NOI of 230,900
\* cents against a PITIA of 381,979 cents.
C17_Scenario ==
    (pc = "calculated" /\ dscr_input = ScenarioInput)
        => /\ ScenarioPayment
           /\ dscr_result.debt_service.principal_and_interest = 306979
           /\ dscr_result.noi.monthly = 230900
           /\ dscr_result.debt_service.total_pitia = 381979
           /\ RatioGE(dscr_result.dscr_ratio, 60) /\ RatioLT(dscr_result.dscr_ratio, 61)

\* C17 witness: calculate has returned on the scenario input
C17_Witness ==
    /\ pc = "calculated" /\ dscr_input = ScenarioInput
    /\ ScenarioPayment
    /\ ~dscr_result.dscr_ratio.inf

\* C17 as stated: the payment is about $3,069 and the dscr_ratio about 1.25 (between
\* 1.20 and 1.30)
C17_ScenarioAsStated ==
    (pc = "calculated" /\ dscr_input = ScenarioInput)
        => /\ ScenarioPayment
           /\ RatioGE(dscr_result.dscr_ratio, 120) /\ RatioLT(dscr_result.dscr_ratio, 130)


-----------------------------------------------------------------------------
(* Properties of repeated and concurrent calls (specification SpecCalls)   *)

\* the record r without the given fields
Without(r, fields) == [f \in DOMAIN r \ fields |-> r[f]]

\* the result of a call without the values uuid4() and datetime.utcnow() put into it
Unstamped(call) ==
    IF call.kind = "rules" THEN Without(call.result, {"id", "evaluated_at"})
    ELSE IF call.kind = "decide"
    THEN [Without(call.result, {"id", "decided_at"}) EXCEPT
              !.conditions = [k \in 1..Len(call.result.conditions) |->
                                 Without(call.result.conditions[k], {"id"})],
              !.details = Without(call.result.details, {"rules_evaluation_id"})]
    ELSE IF call.kind = "dscr" /\ call.result # DscrRaised
    THEN Without(call.result, {"id", "calculated_at"})
    ELSE call.result

\* what the call returns when it runs alone, without its stamps
RunAlone(call) ==
    IF call.kind = "rules" THEN Evaluate(call.loan_data)
    ELSE IF call.kind = "decide"
    THEN BuildDecisionResult(call.loan_data, Evaluate(call.loan_data),
                             PricingStep(call.pricing_input))
    ELSE IF call.kind = "pricing" THEN CalculatePricing(call.pricing_input)
    ELSE IF DebtServiceRaises(call.dscr_input) THEN DscrRaised
    ELSE Calculate(call.dscr_input)

Returned(c) == calls[c].pc = "done"

\* two calls of the same component with identical inputs
SameCall(c, o) ==
    /\ calls[c].kind = calls[o].kind
    /\ calls[c].loan_data = calls[o].loan_data
    /\ calls[c].pricing_input = calls[o].pricing_input
    /\ calls[c].dscr_input = calls[o].dscr_input

\* a result that carries an id
HasId(call) == call.kind # "pricing" /\ call.result # DscrRaised

\* C14: two calls of the same component with identical inputs return results that are
\* identical in every field except the uuid4 ids (the id of the result, the ids of the
\* conditions, details.rules_evaluation_id), which always differ, and the utcnow
\* timestamps (evaluated_at, decided_at, calculated_at); the results of
\* calculate_pricing are identical in every field.
C14_DeterministicButStamps ==
    \A c \in Callers : \A o \in Callers \ {c} :
        (Returned(c) /\ Returned(o) /\ SameCall(c, o))
            => /\ Unstamped(calls[c]) = Unstamped(calls[o])
               /\ calls[c].kind = "pricing" => calls[c].result = calls[o].result
               /\ HasId(calls[c]) => calls[c].result.id # calls[o].result.id

\* C14 witness: decision_service.evaluate has returned twice on identical inputs, the
\* clock having advanced in between
C14_Witness ==
    /\ Returned("c1") /\ Returned("c2") /\ SameCall("c1", "c2")
    /\ calls["c1"].kind = "decide"
    /\ calls["c1"].result.decided_at # calls["c2"].result.decided_at
    /\ Unstamped(calls["c1"]) = Unstamped(calls["c2"])

\* C14 as stated: the two results are identical in every field
C14_IdenticalInEveryField ==
    \A c \in Callers : \A o \in Callers \ {c} :
        (Returned(c) /\ Returned(o) /\ SameCall(c, o))
            => calls[c].result = calls[o].result

\* C15: in every interleaving of the steps of concurrent evaluations on the shared
\* engines, each evaluation returns the decision, rule verdicts, pricing and DSCR values
\* it returns when run alone, and the rule table and the pricing tables stay as
\* constructed.
C15_ConcurrentAsAlone ==
    /\ engine_rules = Rules
    /\ pricing_tables = PricingTables
    /\ \A c \in Callers : Returned(c) => Unstamped(calls[c]) = RunAlone(calls[c])

\* C15 witness: a decision and a rules evaluation of different applications have both
\* returned, each having taken steps while the other was in flight
C15_Witness ==
    /\ Returned("c1") /\ Returned("c2")
    /\ calls["c1"].kind = "decide" /\ calls["c2"].kind = "rules"
    /\ calls["c1"].loan_data # calls["c2"].loan_data
    /\ calls["c1"].overlapped /\ calls["c2"].overlapped
    /\ calls["c1"].result.decision_type = "CONDITIONALLY_APPROVED"
    /\ calls["c2"].result.overall_status = "WARNING"

-----------------------------------------------------------------------------
(* Properties of the debt service across rates (specification SpecRates)   *)

\* C18: of two inputs that differ only in interest_rate (loan amount >= 0, term of at
\* least one month), the one with the higher rate has a total PITIA greater than or
\* equal to that of the other, wherever calculate returns for both.
C18_PitiaMonotone ==
    \A c \in Callers : \A o \in Callers \ {c} :
        (/\ Returned(c) /\ Returned(o)
         /\ calls[c].kind = "dscr" /\ calls[o].kind = "dscr"
         /\ SameButRate(calls[c].dscr_input, calls[o].dscr_input)
         /\ calls[c].dscr_input.loan_amount >= 0
         /\ calls[c].dscr_input.term_months >= 1
         /\ RateLess(calls[c].dscr_input.interest_rate, calls[o].dscr_input.interest_rate)
         /\ calls[c].result # DscrRaised /\ calls[o].result # DscrRaised)
            => calls[c].result.debt_service.total_pitia
                   <= calls[o].result.debt_service.total_pitia


-----------------------------------------------------------------------------
(* Further properties of the decision service (specification Spec)         *)

\* C21: whenever decision_service.evaluate returns CONDITIONALLY_APPROVED, every
\* HARD_STOP rule and every EXCEPTION_REQUIRED rule of the table has status PASS; a
\* loan with such a rule NOT_APPLICABLE is never conditionally approved.
C21_ApprovedOnlyIfAllPass ==
    (pc = "decided" /\ decision_result.decision_type = "CONDITIONALLY_APPROVED")
        => \A k \in 1..Len(rules_result.rule_results) :
               rules_result.rule_results[k].severity \in {"HARD_STOP", "EXCEPTION_REQUIRED"}
                   => rules_result.rule_results[k].status = "PASS"


-----------------------------------------------------------------------------
(* Further properties of the DSCR calculator (specification SpecDscr)      *)

\* an optional rate as given, the default standing in only for an absent field
GivenOr(opt, default) == IF opt = << >> THEN default ELSE opt[1]

\* C22: calculate uses the vacancy rate and the management-fee rate of the input
\* whenever they are given, an explicit 0 included: effective rent = gross rent x
\* (1 - vacancy rate), management fee = rate x effective gross income; the defaults of
\* 5% and 8% apply only to an absent field.
C22_GivenRatesUsed ==
    pc = "calculated" =>
        LET vacancy == GivenOr(dscr_input.vacancy_rate, 5)
            mgmt == GivenOr(dscr_input.management_fee_rate, 8)
            income == dscr_result.income
        IN /\ income.vacancy_rate = vacancy
           /\ income.effective_gross_rent
                  = TruncDiv(income.gross_monthly_rent * (100 - vacancy), 100)
           /\ dscr_result.expenses.management_fee_monthly
                  = TruncDiv((income.effective_gross_rent + OrZero(income.other_income))
                                 * mgmt, 100)


-----------------------------------------------------------------------------
(* Properties of the stress scenarios and of the maximum loan amount       *)
(* (specification SpecStress)                                              *)

\* C23: calculate_scenarios returns the base case followed by all three stress variants
\* (High Vacancy at 10%, Rate +1%, Rent -10%), each the dscr_ratio of calculate on a
\* copy of the input with that one field overridden.
C23_AllScenarios ==
    pc = "scenarios" =>
        /\ [k \in 1..Len(scenarios) |-> scenarios[k].name]
               = <<"Base Case", "High Vacancy", "Rate +1%", "Rent -10%">>
        /\ scenarios[1].dscr_result = Calculate(dscr_input).dscr_ratio
        /\ scenarios[2].dscr_result = Calculate(HighVacancyInput(dscr_input)).dscr_ratio
        /\ \E rounds \in {"down", "up"} :
               scenarios[3].dscr_result
                   = Calculate(RateIncreaseInput(dscr_input, rounds)).dscr_ratio
        /\ scenarios[4].dscr_result = Calculate(RentDecreaseInput(dscr_input)).dscr_ratio

\* C24: the monthly NOI from which calculate_max_loan_amount derives the maximum PITIA
\* is the monthly NOI calculate reports for the same input.
C24_MaxLoanNoi ==
    (pc = "max_loan" /\ ~DebtServiceRaises(dscr_input))
        => max_loan.noi_monthly = Calculate(dscr_input).noi.monthly

\* the ratio a is at most the ratio b
RatioLeq(a, b) ==
    \/ b.inf
    \/ /\ ~a.inf
       /\ IF a.num < 0 /\ b.num >= 0 THEN TRUE
          ELSE IF a.num >= 0 /\ b.num < 0 THEN FALSE
          ELSE IF a.num >= 0
          THEN BigLeq(BigMul(BigFromNat(a.num), BigFromNat(b.den)),
                      BigMul(BigFromNat(b.num), BigFromNat(a.den)))
          ELSE BigLeq(BigMul(BigFromNat(-b.num), BigFromNat(a.den)),
                      BigMul(BigFromNat(-a.num), BigFromNat(b.den)))

\* C29: each stress scenario returned by calculate_scenarios has a dscr_result less than
\* or equal to the dscr_result of the Base Case.
C29_StressNotAboveBase ==
    pc = "scenarios" =>
        \A k \in 2..Len(scenarios) :
            RatioLeq(scenarios[k].dscr_result, scenarios[1].dscr_result)

\* C25: calculate emits HIGH_EXPENSE_RATIO exactly when the effective income is positive
\* and total_expenses (tax, insurance, HOA, management fee, flood insurance and other
\* expenses together) exceeds 50% of the effective income.
C25_HighExpenseRatioOfTotal ==
    pc = "calculated" =>
        LET income == dscr_result.income
            effective_income == income.effective_gross_rent + OrZero(income.other_income)
        IN (\E k \in 1..Len(dscr_result.warnings) :
                dscr_result.warnings[k] = "HIGH_EXPENSE_RATIO")
           <=> (effective_income > 0
                /\ 2 * dscr_result.expenses.total_expenses > effective_income)

\* the warning code is among the warnings of the result
Warned(result, code) == \E k \in 1..Len(result.warnings) : result.warnings[k] = code

\* C26: the gross monthly rent is annualized STR income / 12 when the STR flag is set
\* and STR income is present; else the sum of the rents of the non-vacant rent-roll
\* units when a rent roll is present; else the stated gross rent; else zero.
\* NO_RENT_DATA is emitted exactly in the last case, RENT_DISCREPANCY exactly when the
\* rent roll is the source and a stated gross rent exists that differs from the roll
\* total by more than 10%.
C26_RentResolution ==
    pc = "calculated" =>
        LET i == dscr_input
            str == i.is_short_term_rental /\ i.str_annualized_income # << >>
            roll == ~str /\ i.rent_roll # << >>
            stated == ~str /\ ~roll /\ i.gross_monthly_rent # << >>
            total == RentRollTotal(i.rent_roll)
            differs == LET rent == i.gross_monthly_rent[1]
                       IN 10 * (IF total >= rent THEN total - rent ELSE rent - total) > rent
        IN /\ dscr_result.income.gross_monthly_rent
                  = IF str THEN i.str_annualized_income[1] \div 12
                    ELSE IF roll THEN total
                    ELSE IF stated THEN i.gross_monthly_rent[1]
                    ELSE 0
           /\ Warned(dscr_result, "NO_RENT_DATA") <=> (~str /\ ~roll /\ ~stated)
           /\ Warned(dscr_result, "RENT_DISCREPANCY")
                  <=> (roll /\ i.gross_monthly_rent # << >> /\ differs)


-----------------------------------------------------------------------------
(* Further properties of the pricing engine (specification SpecPricing)    *)

\* the basis points of the adjustment recorded for the factor, 0 when none is recorded
RecordedBps(result, factor) ==
    IF \E k \in 1..Len(result.adjustments) : result.adjustments[k].factor = factor
    THEN (CHOOSE a \in { result.adjustments[k] : k \in 1..Len(result.adjustments) } :
              a.factor = factor).adjustment_bps
    ELSE 0

\* the LTV adjustment of the band that sets the risk-tier points
BpsOfPointsBand(ltv) ==
    IF ltv <= 65 THEN -25 ELSE IF ltv <= 70 THEN 0 ELSE IF ltv <= 75 THEN 25
    ELSE IF ltv <= 80 THEN 50 ELSE 100

\* C27: the LTV band that sets the basis-point adjustment is the band that sets the
\* risk-tier points (<= 65, <= 70, <= 75, <= 80, > 80); a loan with ltv <= 80 never
\* receives the +100 bps of the over-80 band.
C27_LtvBandsAgree ==
    pc = "priced" =>
        /\ RecordedBps(pricing_result, "LTV") = BpsOfPointsBand(pricing_input.ltv)
        /\ pricing_input.ltv <= 80 => ~HasAdjustment(pricing_result, "LTV", 100)

\* C28: holding ltv, credit score, property type and cash-out flag fixed, a pricing
\* input with a higher DSCR never gets a higher final_rate than one with a lower DSCR,
\* over negative, zero, positive and infinite DSCR.
C28_RateMonotoneInDscr ==
    pc = "priced" =>
        \A dscr \in DscrValues :
            dscr > pricing_input.dscr
                => CalculatePricing([pricing_input EXCEPT !.dscr = dscr]).final_rate
                       <= pricing_result.final_rate


-----------------------------------------------------------------------------
(* Properties of the workflow engine (specification SpecWorkflow)          *)

\* every transition of the list but the first leaves the milestone the one before it
\* entered, along an edge of VALID_TRANSITIONS
RecordedPath(list) ==
    \A k \in 2..Len(list) :
        /\ list[k].from_milestone = <<list[k - 1].to_milestone>>
        /\ Contains(ValidNext(list[k - 1].to_milestone), list[k].to_milestone)

\* C30: after any sequence of transition calls, the transitions recorded for an
\* application form a path in VALID_TRANSITIONS: every recorded transition other than
\* the first is an allowed edge whose from_milestone is the to_milestone of the
\* transition recorded just before it, so none is recorded out of DENIED, WITHDRAWN or
\* COMPLETION; a call rejected with ValueError records no transition and creates no
\* tasks.
C30_TransitionsFormPath ==
    /\ [](\A a \in Applications : RecordedPath(transitions[a]))
    /\ [][pc' = "ValueError" => UNCHANGED <<transitions, tasks>>]_vars

=============================================================================
